---- MODULE Spec2Model ----
(***************************************************************************)
(* Verification model of cvetracker4rs: the level-synchronous reverse-     *)
(* dependency explorer (src/src/dependency_analyzer.rs, src/src/model.rs)  *)
(* and the call-graph runner with its subprocess handling                  *)
(* (src/src/callgraph.rs, src/src/process.rs).                             *)
(*                                                                         *)
(* Specifications:                                                         *)
(*   Spec        one run of DependencyAnalyzer::analyze over a registry    *)
(*   SpecLevel   process_bfs_level on one level, semaphore protocol only   *)
(*   SpecRunner  one analyzer subprocess under its deadline, with a clock  *)
(***************************************************************************)
EXTENDS Naturals, Integers, Sequences, FiniteSets, TLC

(***************************************************************************)
(* Program constants and model bounds                                      *)
(***************************************************************************)
MAX_CONCURRENT_TASKS == 6
BATCH_SIZE == 100
MAX_DOWNLOAD_CONCURRENT == 4

\* highest version rank that occurs in a registry of the model
MaxVer == 3
\* environment faults (I/O, subprocess, registry failures) injected per run
MaxFaults == 1

(***************************************************************************)
(* Data.  A version string is a natural: 0 is a string that is not valid   *)
(* SemVer ("not-a-version"), n >= 1 is the valid version whose SemVer      *)
(* precedence rank is n.  A requirement string is a record: valid says     *)
(* whether VersionReq::parse accepts it, vers the versions it matches.     *)
(***************************************************************************)
Names == {"libA", "libB", "libC"}
Vers == 1..MaxVer
AllKeys == Names \X Vers

Req(vs) == [valid |-> TRUE, vers |-> vs]
BadReq == [valid |-> FALSE, vers |-> {}]

\* semver::Version::parse(s).ok()
VersionParses(s) == s # 0

\* VersionReq::parse(req) is Ok and req.matches(ver)
ReqMatches(req, ver) == req.valid /\ ver \in req.vers

\* ReverseDependency::new(name, version, req)
ReverseDependency(n, v, r) == [name |-> n, version |-> v, req |-> r]

\* Krate::new(name, version), as the (name, version) pair that identifies it
Krate(n, v) == <<n, v>>

\* Krate::get_extract_dir_path: $DOWNLOAD_DIR/<name>/<name>-<version>, as the
\* sequence of its path components
get_extract_dir_path(k) == <<"DOWNLOAD_DIR", k[1], <<k[1], "-", k[2]>>>>

(***************************************************************************)
(* Registries: the contents of the crates.io database of a run.            *)
(*   versions    rows of query_crate_versions(root)                        *)
(*   range       the user's version range                                  *)
(*   dependents  rows of query_dependents(name)                            *)
(***************************************************************************)
Root == "libA"

\* S1: one seed, one dependent that requires it
RegSingleHop ==
    [versions |-> <<1>>, range |-> Req({1}),
     dependents |-> [n \in Names |->
        IF n = "libA" THEN <<ReverseDependency("libB", 1, Req({1}))>>
        ELSE <<>>]]

\* two seeds that share the dependent libB 1, and libA 1 itself is a
\* dependent of libB (a dependency cycle, as dev-dependencies allow)
RegSharedCycle ==
    [versions |-> <<2, 0, 1>>, range |-> Req({1, 2}),
     dependents |-> [n \in Names |->
        IF n = "libA" THEN <<ReverseDependency("libB", 1, Req({1, 2})),
                             ReverseDependency("libC", 1, Req({3}))>>
        ELSE IF n = "libB" THEN <<ReverseDependency("libA", 1, Req({1}))>>
        ELSE <<>>]]

\* one seed; libB has three matching versions, one record with an
\* unparseable requirement and one with an unparseable version
RegTwoEnds ==
    [versions |-> <<3, 2>>, range |-> Req({2}),
     dependents |-> [n \in Names |->
        IF n = "libA" THEN <<ReverseDependency("libB", 2, Req({2})),
                             ReverseDependency("libB", 1, Req({2, 3})),
                             ReverseDependency("libB", 3, Req({1, 2})),
                             ReverseDependency("libC", 1, BadReq),
                             ReverseDependency("libC", 0, Req({2}))>>
        ELSE <<>>]]

\* no published version satisfies the range
RegNoMatch ==
    [versions |-> <<3, 0>>, range |-> Req({1}),
     dependents |-> [n \in Names |->
        IF n = "libA" THEN <<ReverseDependency("libB", 1, Req({3}))>>
        ELSE <<>>]]

\* a chain: libC requires libB, which requires the one seed
RegChain ==
    [versions |-> <<1>>, range |-> Req({1}),
     dependents |-> [n \in Names |->
        IF n = "libA" THEN <<ReverseDependency("libB", 1, Req({1}))>>
        ELSE IF n = "libB" THEN <<ReverseDependency("libC", 1, Req({1}))>>
        ELSE <<>>]]

Registries == {RegSingleHop, RegSharedCycle, RegTwoEnds, RegNoMatch, RegChain}

(***************************************************************************)
(* Sequence helpers                                                        *)
(***************************************************************************)
RECURSIVE Flatten(_)
Flatten(ss) == IF ss = <<>> THEN <<>> ELSE Head(ss) \o Flatten(Tail(ss))

\* all orderings of a finite set
Orderings(S) ==
    {f \in [1..Cardinality(S) -> S] : \A i, j \in 1..Cardinality(S) : i # j => f[i] # f[j]}

(***************************************************************************)
(* Version selection                                                       *)
(***************************************************************************)
\* select_oldest_and_newest_versions: stable sort by version of the indexed
\* list, then the first element and (when there are at least two) the last.
\* Indices are positions in the argument (1-based here, 0-based in Rust).
\* a selection that takes the first element for the oldest
FirstIndex(versions) == 1

OldestIndex(versions) ==
    CHOOSE i \in 1..Len(versions) :
        \A j \in 1..Len(versions) :
            versions[i] < versions[j] \/ (versions[i] = versions[j] /\ i <= j)

NewestIndex(versions) ==
    CHOOSE i \in 1..Len(versions) :
        \A j \in 1..Len(versions) :
            versions[j] < versions[i] \/ (versions[j] = versions[i] /\ j <= i)

select_oldest_and_newest_versions(versions) ==
    IF Len(versions) = 0 THEN <<>>
    ELSE IF Len(versions) = 1 THEN <<<<OldestIndex(versions), versions[OldestIndex(versions)]>>>>
    ELSE <<<<OldestIndex(versions), versions[OldestIndex(versions)]>>,
           <<NewestIndex(versions), versions[NewestIndex(versions)]>>>>

\* a filter that keeps every version that parses, whatever the range
parsed_versions(versions, version_req) == SelectSeq(versions, VersionParses)

\* analyze, lines 96-105: the published versions that parse and match the range
matched_versions(versions, version_req) ==
    SelectSeq(versions, LAMBDA s : VersionParses(s) /\ ReqMatches(version_req, s))

\* analyze, lines 110-121: the seed queue
SeedQueue(reg) ==
    LET sel == select_oldest_and_newest_versions(matched_versions(reg.versions, reg.range))
    IN [k \in 1..Len(sel) |-> Krate(Root, sel[k][2])]

\* a filter that lets every record through
unfiltered_dependents(dependents, precise_version) == dependents

\* DependencyAnalyzer::filter_dependents_by_version_req
filter_dependents_by_version_req(dependents, precise_version) ==
    SelectSeq(dependents,
              LAMBDA dep : VersionParses(precise_version) /\ ReqMatches(dep.req, precise_version))

\* process_single_bfs_node, lines 232-277: group the records whose version
\* parses by name, keep the oldest and the newest of each name.  nameOrder is
\* the iteration order of the HashMap of groups.
GroupOf(deps, n) == SelectSeq(deps, LAMBDA dep : dep.name = n /\ VersionParses(dep.version))

GroupNames(deps) == {deps[i].name : i \in {k \in 1..Len(deps) : VersionParses(deps[k].version)}}

\* a selection that keeps every version of the group
SelectedOfGroupAll(group) == group

SelectedOfGroup(group) ==
    LET sel == select_oldest_and_newest_versions([k \in 1..Len(group) |-> group[k].version])
    IN [k \in 1..Len(sel) |-> group[sel[k][1]]]

selected_dependents(deps, nameOrder) ==
    Flatten([k \in 1..Len(nameOrder) |-> SelectedOfGroup(GroupOf(deps, nameOrder[k]))])


(***************************************************************************)
(* State of one run of DependencyAnalyzer::analyze                         *)
(***************************************************************************)
VARIABLES
    registry,       \* the database contents of this run
    pc,             \* "start", "loop" (bfs_from_queue loop head), "level", "returned"
    ret,            \* what analyze returned: "none" (still running), "Ok", "Err"
    queue,          \* bfs_from_queue: queue
    visited,        \* bfs_from_queue: visited
    level,          \* bfs_from_queue: level
    current_level,  \* process_bfs_level: current_level
    nodeSt,         \* per node task of the level: "pending", "query", "deps", "done"
    nodeDeps,       \* per node task: selected_dependents
    depSt,          \* per node task, per dependent task: [st, res]
    nodeNext,       \* per node task: next_nodes
    results,        \* process_bfs_level: results, in completion order
    permits,        \* free permits of DependencyAnalyzer::semaphore
    download_permits, \* free permits of DOWNLOAD_SEMAPHORE
    pinned,         \* per key: the (name, version) that Cargo.lock of its tree pins, or "none"
    archive,        \* per key: the .crate file, "none", "empty" (zero length) or "full"
    extracted,      \* per key: the extract directory exists
    callers,        \* per key: <extract dir>/target/callers.json exists
    artifact,       \* per key: target/<name>-<version>-callers.json exists
    faults,         \* environment faults injected so far
    registryFailedAt, \* level at which a registry query failed, -1 if none did
    placed,         \* per key: how often it was popped into a level
    matCount,       \* per key: calls of get_crate_dir_path by a dependent task (line 314)
    prepCount,      \* per key: calls of get_crate_dir_path by prepare_analysis_environment
    patchCount,     \* per key: calls of patch_cargo_toml_with_parent
    runCount,       \* per key: calls of run_function_analysis
    writeCount,     \* per key: artifact files written by save_analysis_result
    reachedKeys,    \* keys whose analyze_function_calls returned Some
    members,        \* <<level, key>> of every node popped into a level
    started,        \* <<level, key>> of every node task that began
    finished,       \* <<level, key>> of every node task that returned
    emitter         \* <<level, childKey, parentKey>> of every enqueued child

fsVars == <<archive, extracted, callers, artifact>>
countVars == <<matCount, prepCount, patchCount, runCount, writeCount, reachedKeys>>
historyVars == <<members, started, finished, emitter>>
levelVars == <<current_level, nodeSt, nodeDeps, depSt, nodeNext, results>>
mainVars == <<registry, pc, ret, queue, visited, level, levelVars, permits, download_permits, pinned,
              fsVars, faults, registryFailedAt, placed, countVars, historyVars>>

\* one call of process_bfs_level on a level given as input (SpecLevel)
VARIABLES
    lvLevel,        \* per node of the level: how many selected dependents it has
    lvNodeSt,       \* per node task: "pending", "query", "deps" or "done"
    lvDepSt,        \* per node task, per dependent task: "pending", "working" or "done"
    lvPermits,      \* free permits of DependencyAnalyzer::semaphore
    lvPc            \* "level" while collect() is awaited, then "returned"

lvVars == <<lvLevel, lvNodeSt, lvDepSt, lvPermits, lvPc>>

\* one call of run_function_analysis and its analyzer subprocess (SpecRunner)
VARIABLES
    rImpl,          \* "callgraph" (callgraph.rs) or "legacy" (dependency_analyzer.rs)
    rPc,            \* position in run_function_analysis
    rResult,        \* "none", "Some", "None", "Err" or "Panic"
    child,          \* call-cg4rs: "none", "running", "exited" (not waited on) or "reaped"
    handle,         \* the Child value: "none", "held" or "dropped"
    rFailure,       \* the failure the call met, "none" if none
    childAge,       \* seconds since the analyzer was spawned
    waited,         \* seconds the 240-second timer has run
    grace,          \* seconds the grace timer of graceful_kill_process has run
    prefilter,      \* what check_src_contain_target_function returned: "none" (not
                    \* called), "hit", "miss" or "error"
    exitStatus,     \* "none" while call-cg4rs has not exited, then "zero" or "nonzero"
    outDir,         \* the files of the output directory once call-cg4rs has exited
    cleanRan,       \* "no" until cleanup_and_return_result runs, then what child was then
    rSaved,         \* save_analysis_result has written the artifact
    signals         \* what graceful_kill_process did to the child, in order: "SIGTERM",
                    \* "SIGTERM_failed" (the signal could not be sent), "SIGKILL"

obsVars == <<prefilter, exitStatus, outDir, cleanRan, rSaved, signals>>
runVars == <<rImpl, rPc, rResult, child, handle, rFailure, childAge, waited, grace, obsVars>>

\* one call of each selection function on inputs given to it (SpecSelect)
VARIABLES
    sVersions,      \* versions: the version strings handed to the selector
    sRange,         \* version_range: the range handed to the selector
    sRevdeps,       \* what query_dependents returned for the krate
    sPrecise,       \* krate.version
    sPc,            \* "input", then which function was applied and how it ended
    sSelected,      \* what select_two_end_vers returned: pairs <<index, version>>
    sSeeds,         \* the seed queue analyze built
    sDeps,          \* what get_reverse_deps_for_krate returned
    sTargets,       \* target_function_paths: the targets between the commas, each
                    \* one the sequence of its segments between "::"
    sSource,        \* the names that occur in the source tree
    sGrepErr,       \* the names for which grep ends with a status other than 0 and 1
    sHit            \* what check_src_contain_target_function returned

selVars == <<sVersions, sRange, sRevdeps, sPrecise, sPc, sSelected, sSeeds, sDeps,
             sTargets, sSource, sGrepErr, sHit>>

\* the crate cache of one (name, version) and one copy of a directory (SpecCache)
VARIABLES
    crateFile,      \* the .crate file of the key: "none", "empty" (zero length) or "full"
    extractDir,     \* the extract directory: "none", "nomanifest" or "manifest"
    cPc,            \* where the call under way stands
    dlRet,          \* what the last download() returned
    dirRet,         \* what the last get_crate_dir_path() returned
    cCalls,         \* the calls of get_crate_dir_path() so far
    fromCritical,   \* the critical files that exist in the source of the copy
    toCritical,     \* the critical files that exist in the destination
    fromEntries,    \* the entries of the source directory
    toEntries,      \* the entries of the destination directory
    fromReadable,   \* read_dir(from) succeeds
    toReadable,     \* read_dir(to) succeeds
    vRet,           \* what validate_copied_files returned
    fromExists,     \* from_path.exists() at the entry of copy_dir
    attempt,        \* the rsync invocations of this call of copy_dir so far
    rsyncStatus,    \* how the last rsync invocation ended
    last_error,     \* last_error of copy_dir
    cRet            \* what copy_dir returned

copyVars == <<fromExists, attempt, rsyncStatus, last_error, cRet>>

cacheVars == <<crateFile, extractDir, cPc, dlRet, dirRet, cCalls, fromCritical, toCritical,
               fromEntries, toEntries, fromReadable, toReadable, vRet, copyVars>>

\* the batch driver over one CSV file (SpecBatch)
VARIABLES
    bRows,          \* what happens to the analysis of each CSV row, in file order
    bLogDir,        \* log_dir, computed once before the loop
    bIdx,           \* the row the loop stands at
    bDispatched,    \* the processes spawned: the row and the LOG_DIR given to each
    bPc             \* where the driver stands

batchVars == <<bRows, bLogDir, bIdx, bDispatched, bPc>>

\* the workspace manager (SpecDir)
VARIABLES
    workspaces,     \* CrateWorkspaceFileSystemManager.workspaces
    version_dirs,   \* CrateWorkspaceFileSystemManager.version_dirs
    dRet,           \* the last call of the manager and what it returned
    dCreated        \* the calls of create_krate_working_dir that returned Ok: parent, indices, path

dirVars == <<workspaces, version_dirs, dRet, dCreated>>

\* two runs of the same analysis, one after the other (SpecTwice)
VARIABLES
    runNo,          \* 1 in the first run of the analysis, 2 in the second
    analyzerOf,     \* per key: what call-cg4rs does for the package, "any" when not fixed
    firstVisited,   \* visited at the end of the first run
    firstArtifacts  \* the keys with an artifact at the end of the first run

twiceVars == <<runNo, analyzerOf, firstVisited, firstArtifacts>>

\* the manifest and the lock file of one crate under patching (SpecPatch)
VARIABLES
    manifest,       \* Cargo.toml of the crate: its [patch.crates-io] table, per dependency name
    lock,           \* Cargo.lock of the crate: the version pinned per dependency name, 0 if none
    vendored,       \* the (name, version) pairs present under vendor/
    pLast,          \* the pin of the last patch that succeeded
    pCount,         \* the patches applied so far
    pRet,           \* what the last patch returned
    pRepeated       \* the last patch that succeeded applied the pin of the one before it

patchVars == <<manifest, lock, vendored, pLast, pCount, pRet, pRepeated>>

\* the current directory under concurrent calls of run_function_analysis (SpecGuard)
VARIABLES
    cwd,            \* the current directory of the process
    gDir,           \* per call of run_function_analysis: the crate directory it works in
    gOriginal,      \* per call: DirGuard.original, "none" while there is no guard
    gPc             \* per call: "idle", "held" (the guard exists), "done" or "panic"

guardVars == <<cwd, gDir, gOriginal, gPc>>

vars == <<mainVars, lvVars, runVars, selVars, cacheVars, batchVars, dirVars, twiceVars, patchVars, guardVars>>

\* the variables of a call that is not under way
LevelIdle ==
    /\ lvLevel = <<>>
    /\ lvNodeSt = <<>>
    /\ lvDepSt = <<>>
    /\ lvPermits = MAX_CONCURRENT_TASKS
    /\ lvPc = "idle"

BatchIdle ==
    /\ bRows = <<>>
    /\ bLogDir = "none"
    /\ bIdx = 1
    /\ bDispatched = <<>>
    /\ bPc = "idle"

DirIdle ==
    /\ workspaces = <<>>
    /\ version_dirs = <<>>
    /\ dRet = [op |-> "none", kind |-> "none", arg |-> 0, ws |-> 0, vd |-> 0, path |-> <<>>]
    /\ dCreated = <<>>

TwiceIdle ==
    /\ runNo = 1
    /\ analyzerOf = [k \in AllKeys |-> "any"]
    /\ firstVisited = {}
    /\ firstArtifacts = {}

PatchIdle ==
    /\ manifest = <<>>
    /\ lock = <<>>
    /\ vendored = {}
    /\ pLast = [fn |-> "none", name |-> "none", version |-> 0]
    /\ pCount = 0
    /\ pRet = "none"
    /\ pRepeated = FALSE

GuardIdle ==
    /\ cwd = "start"
    /\ gDir = <<>>
    /\ gOriginal = <<>>
    /\ gPc = <<>>

CacheIdle ==
    /\ crateFile = "none"
    /\ extractDir = "none"
    /\ cPc = "idle"
    /\ dlRet = "none"
    /\ dirRet = "none"
    /\ cCalls = 0
    /\ fromCritical = {}
    /\ toCritical = {}
    /\ fromEntries = 0
    /\ toEntries = 0
    /\ fromReadable = TRUE
    /\ toReadable = TRUE
    /\ vRet = "none"
    /\ fromExists = TRUE
    /\ attempt = 0
    /\ rsyncStatus = "none"
    /\ last_error = "none"
    /\ cRet = "none"

SelectIdle ==
    /\ sVersions = <<>>
    /\ sRange = BadReq
    /\ sRevdeps = <<>>
    /\ sPrecise = 0
    /\ sPc = "idle"
    /\ sSelected = <<>>
    /\ sSeeds = <<>>
    /\ sDeps = <<>>
    /\ sTargets = <<>>
    /\ sSource = {}
    /\ sGrepErr = {}
    /\ sHit = "none"

RunnerIdle ==
    /\ rImpl = "none"
    /\ rPc = "idle"
    /\ rResult = "none"
    /\ child = "none"
    /\ handle = "none"
    /\ rFailure = "none"
    /\ childAge = 0
    /\ waited = 0
    /\ grace = 0
    /\ prefilter = "none"
    /\ exitStatus = "none"
    /\ outDir = {}
    /\ cleanRan = "no"
    /\ rSaved = FALSE
    /\ signals = <<>>

NodeIds == 1..Len(current_level)
DepIds(i) == 1..Len(nodeDeps[i])

DepTask(st, res) == [st |-> st, res |-> res]

ZeroCount == [k \in AllKeys |-> 0]

MainInit ==
    /\ registry \in Registries
    /\ pc = "start"
    /\ ret = "none"
    /\ queue = <<>>
    /\ visited = {}
    /\ level = 0
    /\ current_level = <<>>
    /\ nodeSt = <<>>
    /\ nodeDeps = <<>>
    /\ depSt = <<>>
    /\ nodeNext = <<>>
    /\ results = <<>>
    /\ permits = MAX_CONCURRENT_TASKS
    /\ download_permits = MAX_DOWNLOAD_CONCURRENT
    /\ pinned = [k \in AllKeys |-> "none"]
    /\ archive = [k \in AllKeys |-> "none"]
    /\ extracted = [k \in AllKeys |-> FALSE]
    /\ callers = [k \in AllKeys |-> FALSE]
    /\ artifact = [k \in AllKeys |-> FALSE]
    /\ faults = 0
    /\ registryFailedAt = -1
    /\ placed = ZeroCount
    /\ matCount = ZeroCount
    /\ prepCount = ZeroCount
    /\ patchCount = ZeroCount
    /\ runCount = ZeroCount
    /\ writeCount = ZeroCount
    /\ reachedKeys = {}
    /\ members = {}
    /\ started = {}
    /\ finished = {}
    /\ emitter = {}

CanFault == faults < MaxFaults

(***************************************************************************)
(* analyze and bfs_from_queue                                              *)
(***************************************************************************)
\* analyze, lines 86-123, when query_crate_versions succeeds: no matching
\* version returns Ok at once, otherwise the seeds go to the queue
AnalyzeSeed ==
    /\ pc = "start"
    /\ IF Len(SeedQueue(registry)) = 0
       THEN /\ pc' = "returned"
            /\ ret' = "Ok"
            /\ queue' = queue
       ELSE /\ pc' = "loop"
            /\ ret' = ret
            /\ queue' = SeedQueue(registry)
    /\ UNCHANGED <<guardVars, patchVars, twiceVars, dirVars, batchVars, cacheVars, lvVars, runVars, selVars, pinned, download_permits, registry, registryFailedAt, visited, level, levelVars, permits, fsVars, faults,
                   placed, countVars, historyVars>>

\* analyze, line 87: query_crate_versions fails and `?` returns the error
AnalyzeQueryFails ==
    /\ pc = "start"
    /\ CanFault
    /\ faults' = faults + 1
    /\ registryFailedAt' = level
    /\ pc' = "returned"
    /\ ret' = "Err"
    /\ UNCHANGED <<guardVars, patchVars, twiceVars, dirVars, batchVars, cacheVars, lvVars, runVars, selVars, pinned, download_permits, registry, queue, visited, level, levelVars, permits, fsVars,
                   placed, countVars, historyVars>>

\* bfs_from_queue, lines 158-161: the loop test, level += 1, pop_bfs_level;
\* the node futures of process_bfs_level are created, none polled yet
BfsPopLevel ==
    /\ pc = "loop"
    /\ queue # <<>>
    /\ level' = level + 1
    /\ current_level' = queue
    /\ queue' = <<>>
    /\ nodeSt' = [i \in 1..Len(queue) |-> "pending"]
    /\ nodeDeps' = [i \in 1..Len(queue) |-> <<>>]
    /\ depSt' = [i \in 1..Len(queue) |-> <<>>]
    /\ nodeNext' = [i \in 1..Len(queue) |-> <<>>]
    /\ results' = <<>>
    /\ placed' = [k \in AllKeys |->
                    placed[k] + Cardinality({i \in 1..Len(queue) : queue[i] = k})]
    /\ members' = members \cup {<<level + 1, queue[i]>> : i \in 1..Len(queue)}
    /\ pc' = "level"
    /\ UNCHANGED <<guardVars, patchVars, twiceVars, dirVars, batchVars, cacheVars, lvVars, runVars, selVars, pinned, download_permits, registry, registryFailedAt, ret, visited, permits, fsVars, faults, countVars,
                   started, finished, emitter>>

\* bfs_from_queue, lines 158 and 167: the queue is empty, return Ok
BfsReturn ==
    /\ pc = "loop"
    /\ queue = <<>>
    /\ pc' = "returned"
    /\ ret' = "Ok"
    /\ UNCHANGED <<guardVars, patchVars, twiceVars, dirVars, batchVars, cacheVars, lvVars, runVars, selVars, pinned, download_permits, registry, registryFailedAt, queue, visited, level, levelVars, permits, fsVars,
                   faults, placed, countVars, historyVars>>


(***************************************************************************)
(* process_bfs_level: the node tasks of the current level                  *)
(***************************************************************************)
\* buffer_unordered(MAX_CONCURRENT_TASKS) polls the futures of a stream in
\* order and keeps at most MAX_CONCURRENT_TASKS of them unfinished
Admitted(states, pos) ==
    Cardinality({k \in 1..(pos - 1) : states[k] # "done"}) < MAX_CONCURRENT_TASKS

\* the node task returns: its permit is dropped, its result is collected
NodeReturns(i, isOk, nodes) ==
    /\ nodeSt' = [nodeSt EXCEPT ![i] = "done"]
    /\ results' = Append(results, [from |-> current_level[i], ok |-> isOk, nodes |-> nodes])
    /\ permits' = permits + 1
    /\ finished' = finished \cup {<<level, current_level[i]>>}

\* process_bfs_level, line 182: the node task is polled and takes a permit
NodeAcquire(i) ==
    /\ pc = "level"
    /\ nodeSt[i] = "pending"
    /\ Admitted(nodeSt, i)
    /\ permits > 0
    /\ permits' = permits - 1
    /\ nodeSt' = [nodeSt EXCEPT ![i] = "query"]
    /\ started' = started \cup {<<level, current_level[i]>>}
    /\ UNCHANGED <<guardVars, patchVars, twiceVars, dirVars, batchVars, cacheVars, lvVars, runVars, selVars, pinned, download_permits, registry, registryFailedAt, pc, ret, queue, visited, level, current_level, nodeDeps,
                   depSt, nodeNext, results, fsVars, faults, placed, countVars,
                   members, finished, emitter>>

\* an expansion that only a node found to reach the target gets
NodeQueryIfReached(i) ==
    /\ pc = "level"
    /\ nodeSt[i] = "query"
    /\ LET krate == current_level[i]
           filtered == IF krate \in reachedKeys
                       THEN filter_dependents_by_version_req(registry.dependents[krate[1]], krate[2])
                       ELSE <<>>
       IN \E nameOrder \in Orderings(GroupNames(filtered)) :
            LET sel == selected_dependents(filtered, nameOrder)
            IN /\ nodeDeps' = [nodeDeps EXCEPT ![i] = sel]
               /\ depSt' = [depSt EXCEPT ![i] = [j \in 1..Len(sel) |-> DepTask("pending", "")]]
               /\ IF Len(sel) = 0
                  THEN NodeReturns(i, TRUE, <<>>)
                  ELSE /\ nodeSt' = [nodeSt EXCEPT ![i] = "deps"]
                       /\ UNCHANGED <<results, permits, finished>>
    /\ UNCHANGED <<guardVars, patchVars, twiceVars, dirVars, batchVars, cacheVars, lvVars, runVars, selVars, pinned, download_permits, registry, registryFailedAt, pc, ret, queue, visited, level, current_level, nodeNext,
                   fsVars, faults, placed, countVars, members, started, emitter>>

\* process_single_bfs_node, lines 221-284: query_dependents succeeds, the
\* dependents are filtered, grouped and reduced to two versions per name
NodeQuery(i) ==
    /\ pc = "level"
    /\ nodeSt[i] = "query"
    /\ LET krate == current_level[i]
           filtered == filter_dependents_by_version_req(registry.dependents[krate[1]], krate[2])
       IN \E nameOrder \in Orderings(GroupNames(filtered)) :
            LET sel == selected_dependents(filtered, nameOrder)
            IN /\ nodeDeps' = [nodeDeps EXCEPT ![i] = sel]
               /\ depSt' = [depSt EXCEPT ![i] = [j \in 1..Len(sel) |-> DepTask("pending", "")]]
               /\ IF Len(sel) = 0
                  THEN NodeReturns(i, TRUE, <<>>)
                  ELSE /\ nodeSt' = [nodeSt EXCEPT ![i] = "deps"]
                       /\ UNCHANGED <<results, permits, finished>>
    /\ UNCHANGED <<guardVars, patchVars, twiceVars, dirVars, batchVars, cacheVars, lvVars, runVars, selVars, pinned, download_permits, registry, registryFailedAt, pc, ret, queue, visited, level, current_level, nodeNext,
                   fsVars, faults, placed, countVars, members, started, emitter>>

\* process_single_bfs_node, line 221: query_dependents fails, `?` returns Err
NodeQueryFails(i) ==
    /\ pc = "level"
    /\ nodeSt[i] = "query"
    /\ CanFault
    /\ faults' = faults + 1
    /\ registryFailedAt' = level
    /\ NodeReturns(i, FALSE, <<>>)
    /\ UNCHANGED <<guardVars, patchVars, twiceVars, dirVars, batchVars, cacheVars, lvVars, runVars, selVars, pinned, download_permits, registry, pc, ret, queue, visited, level, current_level, nodeDeps,
                   depSt, nodeNext, fsVars, placed, countVars, members, started, emitter>>

\* process_single_bfs_node, lines 289-293: the batches of chunks(BATCH_SIZE)
\* run one after the other
BatchOf(j) == (j - 1) \div BATCH_SIZE

DepAdmitted(i, j) ==
    /\ \A k \in DepIds(i) : BatchOf(k) < BatchOf(j) => depSt[i][k].st = "done"
    /\ Cardinality({k \in DepIds(i) : /\ k < j
                                       /\ BatchOf(k) = BatchOf(j)
                                       /\ depSt[i][k].st # "done"}) < MAX_CONCURRENT_TASKS

DepKey(i, j) == Krate(nodeDeps[i][j].name, nodeDeps[i][j].version)

\* process_single_bfs_node, line 312: the dependent task takes a permit of
\* the same semaphore
DepAcquire(i, j) ==
    /\ pc = "level"
    /\ nodeSt[i] = "deps"
    /\ depSt[i][j].st = "pending"
    /\ DepAdmitted(i, j)
    /\ permits > 0
    /\ permits' = permits - 1
    /\ depSt' = [depSt EXCEPT ![i][j] = DepTask("materialize", "")]
    /\ UNCHANGED <<guardVars, patchVars, twiceVars, dirVars, batchVars, cacheVars, lvVars, runVars, selVars, pinned, download_permits, registry, registryFailedAt, pc, ret, queue, visited, level, current_level, nodeSt,
                   nodeDeps, nodeNext, results, fsVars, faults, placed, countVars,
                   historyVars>>

\* the dependent task returns: its permit is dropped; Some(dep_krate) is
\* collected into next_nodes (line 410)
DepReturns(i, j, some) ==
    /\ depSt' = [depSt EXCEPT ![i][j] = DepTask("done", IF some THEN "Some" ELSE "None")]
    /\ nodeNext' = [nodeNext EXCEPT ![i] = IF some THEN Append(@, DepKey(i, j)) ELSE @]
    /\ permits' = permits + 1

\* Krate::get_crate_dir_path, lines 248-292 (download and unzip): the ways
\* the section can end for key k.  An existing archive is not downloaded
\* again; an empty download is an error that leaves the empty file behind;
\* tar fails on an empty archive.
DownloadAndExtract(k) ==
         LET downloads ==
                 IF archive[k] # "none"
                 THEN {[ok |-> TRUE, archive |-> archive[k], fault |-> FALSE]}
                 ELSE {[ok |-> TRUE, archive |-> "full", fault |-> FALSE],
                       [ok |-> FALSE, archive |-> "empty", fault |-> TRUE],
                       [ok |-> FALSE, archive |-> "none", fault |-> TRUE]}
             Unzips(d) ==
                 IF ~d.ok
                 THEN {[ok |-> FALSE, archive |-> d.archive, extracted |-> FALSE, fault |-> d.fault]}
                 ELSE IF d.archive = "full"
                 THEN {[ok |-> TRUE, archive |-> "full", extracted |-> TRUE, fault |-> d.fault],
                       [ok |-> FALSE, archive |-> "full", extracted |-> FALSE, fault |-> TRUE]}
                 ELSE {[ok |-> FALSE, archive |-> d.archive, extracted |-> FALSE, fault |-> d.fault]}
         IN UNION {Unzips(d) : d \in downloads}

\* Krate::get_crate_dir_path, lines 230-294, as one step
Materializations(k) ==
    IF extracted[k]
    THEN {[ok |-> TRUE, archive |-> archive[k], extracted |-> TRUE, fault |-> FALSE]}
    ELSE DownloadAndExtract(k)

FaultAllowed(isFault) == isFault => CanFault
FaultCount(isFault) == IF isFault THEN faults + 1 ELSE faults

\* process_single_bfs_node, line 314, and get_crate_dir_path, lines 228-245:
\* a permit of DOWNLOAD_SEMAPHORE is taken; an extract directory that exists
\* is returned at once, otherwise the download-and-extract section begins
DepEnterCrateDir(i, j) ==
    /\ pc = "level"
    /\ depSt[i][j].st = "materialize"
    /\ download_permits > 0
    /\ LET k == DepKey(i, j) IN
         /\ matCount' = [matCount EXCEPT ![k] = @ + 1]
         /\ IF extracted[k]
            THEN /\ depSt' = [depSt EXCEPT ![i][j] = DepTask("patch", "")]
                 /\ UNCHANGED download_permits
            ELSE /\ depSt' = [depSt EXCEPT ![i][j] = DepTask("download", "")]
                 /\ download_permits' = download_permits - 1
    /\ UNCHANGED <<guardVars, patchVars, twiceVars, dirVars, batchVars, cacheVars, lvVars, runVars, selVars, pinned, registry, prepCount, registryFailedAt, pc, ret, queue, visited, level, current_level, nodeSt,
                   nodeDeps, nodeNext, results, permits, fsVars, faults, placed, patchCount,
                   runCount, writeCount, reachedKeys, historyVars>>

\* get_crate_dir_path, lines 248-294, and process_single_bfs_node, lines
\* 315-325: the section ends, the download permit is dropped; an error skips
\* the dependent
DepMaterialize(i, j) ==
    /\ pc = "level"
    /\ depSt[i][j].st = "download"
    /\ download_permits' = download_permits + 1
    /\ LET k == DepKey(i, j) IN
       \E m \in DownloadAndExtract(k) :
         /\ FaultAllowed(m.fault)
         /\ faults' = FaultCount(m.fault)
         /\ archive' = [archive EXCEPT ![k] = m.archive]
         /\ extracted' = [extracted EXCEPT ![k] = m.extracted]
         /\ IF m.ok
            THEN /\ depSt' = [depSt EXCEPT ![i][j] = DepTask("patch", "")]
                 /\ UNCHANGED <<nodeNext, permits>>
            ELSE DepReturns(i, j, FALSE)
    /\ UNCHANGED <<guardVars, patchVars, twiceVars, dirVars, batchVars, cacheVars, lvVars, runVars, selVars, pinned, registry, prepCount, registryFailedAt, pc, ret, queue, visited, level, current_level, nodeSt,
                   nodeDeps, results, callers, artifact, placed, matCount, patchCount, runCount,
                   writeCount, reachedKeys, historyVars>>

\* process_single_bfs_node, lines 333-356: patch_cargo_toml_with_parent under
\* a 60 second timeout; a failure or the timeout skips the dependent
PatchOutcomes == {"patched", "patch_failed", "patch_timeout"}

\* a dependent task that goes on to the analysis whatever the patch returned
DepPatchIgnored(i, j) ==
    /\ pc = "level"
    /\ depSt[i][j].st = "patch"
    /\ \E outcome \in PatchOutcomes :
         /\ FaultAllowed(outcome # "patched")
         /\ faults' = FaultCount(outcome # "patched")
         /\ patchCount' = [patchCount EXCEPT ![DepKey(i, j)] = @ + 1]
         /\ depSt' = [depSt EXCEPT ![i][j] = DepTask("analyze", "")]
         /\ pinned' = IF outcome = "patched"
                      THEN [pinned EXCEPT ![DepKey(i, j)] = current_level[i]]
                      ELSE pinned
         /\ UNCHANGED <<nodeNext, permits>>
    /\ UNCHANGED <<guardVars, patchVars, twiceVars, dirVars, batchVars, cacheVars, lvVars,
                   runVars, selVars, download_permits, registry, prepCount,
                   registryFailedAt, pc, ret, queue, visited, level, current_level, nodeSt,
                   nodeDeps, results, fsVars, placed, matCount, runCount, writeCount,
                   reachedKeys, historyVars>>

DepPatch(i, j) ==
    /\ pc = "level"
    /\ depSt[i][j].st = "patch"
    /\ \E outcome \in PatchOutcomes :
         /\ FaultAllowed(outcome # "patched")
         /\ faults' = FaultCount(outcome # "patched")
         /\ patchCount' = [patchCount EXCEPT ![DepKey(i, j)] = @ + 1]
         /\ IF outcome = "patched"
            THEN /\ depSt' = [depSt EXCEPT ![i][j] = DepTask("analyze", "")]
                 /\ pinned' = [pinned EXCEPT ![DepKey(i, j)] = current_level[i]]
                 /\ UNCHANGED <<nodeNext, permits>>
            ELSE /\ DepReturns(i, j, FALSE)
                 /\ UNCHANGED pinned
    /\ UNCHANGED <<guardVars, patchVars, twiceVars, dirVars, batchVars, cacheVars, lvVars, runVars, selVars, download_permits, registry, prepCount, registryFailedAt, pc, ret, queue, visited, level, current_level, nodeSt,
                   nodeDeps, results, fsVars, placed, matCount, runCount, writeCount,
                   reachedKeys, historyVars>>


\* DependencyAnalyzer::run_function_analysis (lines 515-583): how one call
\* can end.  The prefilter (grep) misses, or fails; the analyzer cannot be
\* started, runs into the 240 second timeout, exits non-zero, or exits zero
\* with or without writing target/callers.json; or callers.json cannot be read.
RunOutcomes ==
    {"prefilter_miss", "prefilter_error", "spawn_error", "analyzer_timeout",
     "nonzero_exit", "no_output", "output", "read_error"}

RunIsFault(outcome) ==
    outcome \in {"prefilter_error", "spawn_error", "analyzer_timeout", "nonzero_exit",
                 "read_error"}

\* what call-cg4rs does for a package when nothing fails: the prefilter
\* misses, the analyzer writes no callers.json, or it writes one
AnalyzerOutcomes == {"prefilter_miss", "no_output", "output"}

\* when the outcome of the package is fixed, a call ends with it or with a failure
OutcomeAllowed(k, outcome) ==
    analyzerOf[k] = "any" \/ RunIsFault(outcome) \/ outcome = analyzerOf[k]

\* target/callers.json after the call
CallersAfterRun(outcome, before) == before \/ outcome \in {"output", "read_error"}

\* the Result<Option<String>> of the call: "Some", "None" or "Err"
RunResult(outcome, callersBefore) ==
    CASE outcome = "prefilter_miss" -> "None"
      [] outcome = "prefilter_error" -> "Err"
      [] outcome \in {"spawn_error", "analyzer_timeout", "nonzero_exit"} -> "None"
      [] outcome = "no_output" -> IF callersBefore THEN "Some" ELSE "None"
      [] outcome = "output" -> "Some"
      [] outcome = "read_error" -> "Err"

\* process_single_bfs_node, lines 363-372, is_valid_dependent and
\* analyze_function_calls up to the return of run_function_analysis
DepAnalyze(i, j) ==
    /\ pc = "level"
    /\ depSt[i][j].st = "analyze"
    /\ LET k == DepKey(i, j)
           parent == current_level[i]
       IN IF ~(VersionParses(parent[2]) /\ ReqMatches(nodeDeps[i][j].req, parent[2]))
          THEN \* is_valid_dependent: Ok(false) without analysis
               /\ depSt' = [depSt EXCEPT ![i][j] = DepTask("save", "None")]
               /\ UNCHANGED <<fsVars, faults, prepCount, runCount>>
          ELSE \E m \in Materializations(k) :
               /\ download_permits > 0
               /\ archive' = [archive EXCEPT ![k] = m.archive]
               /\ extracted' = [extracted EXCEPT ![k] = m.extracted]
               /\ prepCount' = [prepCount EXCEPT ![k] = @ + 1]
               /\ artifact' = artifact
               /\ IF ~m.ok
                  THEN \* prepare_analysis_environment failed: return None
                       /\ FaultAllowed(m.fault)
                       /\ faults' = FaultCount(m.fault)
                       /\ depSt' = [depSt EXCEPT ![i][j] = DepTask("save", "None")]
                       /\ UNCHANGED <<callers, runCount>>
                  ELSE \E outcome \in RunOutcomes :
                       /\ OutcomeAllowed(k, outcome)
                       /\ FaultAllowed(m.fault \/ RunIsFault(outcome))
                       /\ ~(m.fault /\ RunIsFault(outcome))
                       /\ faults' = FaultCount(m.fault \/ RunIsFault(outcome))
                       /\ runCount' = [runCount EXCEPT ![k] = @ + 1]
                       /\ callers' = [callers EXCEPT ![k] = CallersAfterRun(outcome, @)]
                       /\ depSt' = [depSt EXCEPT ![i][j] =
                                      DepTask("cleanup", RunResult(outcome, callers[k]))]
    /\ UNCHANGED <<guardVars, patchVars, twiceVars, dirVars, batchVars, cacheVars, lvVars, runVars, selVars, pinned, download_permits, registry, matCount, registryFailedAt, pc, ret, queue, visited, level, current_level, nodeSt,
                   nodeDeps, nodeNext, results, permits, placed, patchCount, writeCount,
                   reachedKeys, historyVars>>

\* Krate::cargo_clean: `cargo clean` removes the target directory of the
\* extracted crate, callers.json with it; when the manifest is missing or
\* cargo fails the directory stays
CleanOutcomes == {"cleaned", "clean_failed"}

CallersAfterClean(outcome, before) == IF outcome = "cleaned" THEN FALSE ELSE before

\* cleanup_and_return_result, lines 649-684: the archive is deleted, cargo
\* clean runs, and Err becomes None
DepCleanup(i, j) ==
    /\ pc = "level"
    /\ depSt[i][j].st = "cleanup"
    /\ LET k == DepKey(i, j) IN
       \E outcome \in CleanOutcomes :
         /\ FaultAllowed(outcome = "clean_failed")
         /\ faults' = FaultCount(outcome = "clean_failed")
         /\ archive' = [archive EXCEPT ![k] = "none"]
         /\ callers' = [callers EXCEPT ![k] = CallersAfterClean(outcome, @)]
         /\ depSt' = [depSt EXCEPT ![i][j] =
                        DepTask("save", IF depSt[i][j].res = "Some" THEN "Some" ELSE "None")]
    /\ UNCHANGED <<guardVars, patchVars, twiceVars, dirVars, batchVars, cacheVars, lvVars, runVars, selVars, pinned, download_permits, registry, registryFailedAt, pc, ret, queue, visited, level, current_level, nodeSt,
                   nodeDeps, nodeNext, results, permits, extracted, artifact, placed,
                   countVars, historyVars>>

\* save_analysis_result, lines 620-646: copies target/callers.json of the
\* crate to the artifact; the copy fails when the source does not exist
ArtifactAfterSave(before, callersExists) == before \/ callersExists

\* analyze_function_calls, lines 482-492, and the end of the dependent task,
\* lines 380-398: the artifact is saved, Cargo.lock is removed
DepSave(i, j) ==
    /\ pc = "level"
    /\ depSt[i][j].st = "save"
    /\ LET k == DepKey(i, j)
           some == depSt[i][j].res = "Some"
       IN /\ reachedKeys' = IF some THEN reachedKeys \cup {k} ELSE reachedKeys
          /\ artifact' = [artifact EXCEPT ![k] = IF some THEN ArtifactAfterSave(@, callers[k]) ELSE @]
          /\ writeCount' = [writeCount EXCEPT ![k] = IF some /\ callers[k] THEN @ + 1 ELSE @]
          /\ pinned' = [pinned EXCEPT ![k] = "none"]
          /\ DepReturns(i, j, some)
    /\ UNCHANGED <<guardVars, patchVars, twiceVars, dirVars, batchVars, cacheVars, lvVars, runVars, selVars, download_permits, registry, prepCount, registryFailedAt, pc, ret, queue, visited, level, current_level, nodeSt,
                   nodeDeps, results, archive, extracted, callers, faults, placed,
                   matCount, patchCount, runCount, historyVars>>

\* process_single_bfs_node, line 413: every batch is finished, Ok(next_nodes)
NodeFinish(i) ==
    /\ pc = "level"
    /\ nodeSt[i] = "deps"
    /\ \A j \in DepIds(i) : depSt[i][j].st = "done"
    /\ NodeReturns(i, TRUE, nodeNext[i])
    /\ UNCHANGED <<guardVars, patchVars, twiceVars, dirVars, batchVars, cacheVars, lvVars, runVars, selVars, pinned, download_permits, registry, registryFailedAt, pc, ret, queue, visited, level, current_level, nodeDeps,
                   depSt, nodeNext, fsVars, faults, placed, countVars, members, started,
                   emitter>>

\* a collect() that returned as soon as one node task had finished
LevelCompleteEarly == \E i \in NodeIds : nodeSt[i] = "done"

\* process_bfs_level, lines 189-190: collect() has every result
LevelComplete == \A i \in NodeIds : nodeSt[i] = "done"

\* process_bfs_level, lines 192-207: the nodes of the Ok results, each with
\* the node that emitted it; Err results are skipped
RECURSIVE EmittedPairs(_)
EmittedPairs(rs) ==
    IF rs = <<>> THEN <<>>
    ELSE (IF Head(rs).ok
          THEN [n \in 1..Len(Head(rs).nodes) |->
                    [from |-> Head(rs).from, node |-> Head(rs).nodes[n]]]
          ELSE <<>>) \o EmittedPairs(Tail(rs))

\* visited.insert(cv) for each emitted node in turn; the new ones are kept
RECURSIVE InsertAll(_, _, _)
InsertAll(pairs, vis, kept) ==
    IF pairs = <<>> THEN [visited |-> vis, kept |-> kept]
    ELSE IF Head(pairs).node \in vis
         THEN InsertAll(Tail(pairs), vis, kept)
         ELSE InsertAll(Tail(pairs), vis \cup {Head(pairs).node}, Append(kept, Head(pairs)))

\* process_bfs_level, lines 192-209, and push_next_level
LevelCollect ==
    /\ pc = "level"
    /\ LevelComplete
    /\ LET ins == InsertAll(EmittedPairs(results), visited, <<>>) IN
         /\ visited' = ins.visited
         /\ queue' = [n \in 1..Len(ins.kept) |-> ins.kept[n].node]
         /\ emitter' = emitter \cup
                {<<level + 1, ins.kept[n].node, ins.kept[n].from>> : n \in 1..Len(ins.kept)}
    /\ pc' = "loop"
    /\ current_level' = <<>>
    /\ nodeSt' = <<>>
    /\ nodeDeps' = <<>>
    /\ depSt' = <<>>
    /\ nodeNext' = <<>>
    /\ results' = <<>>
    /\ UNCHANGED <<guardVars, patchVars, twiceVars, dirVars, batchVars, cacheVars, lvVars, runVars, selVars, pinned, download_permits, registry, registryFailedAt, ret, level, permits, fsVars, faults, placed, countVars,
                   members, started, finished>>

MainNext ==
    \/ AnalyzeSeed
    \/ AnalyzeQueryFails
    \/ BfsPopLevel
    \/ BfsReturn
    \/ \E i \in NodeIds : NodeAcquire(i)
    \/ \E i \in NodeIds : NodeQuery(i)
    \/ \E i \in NodeIds : NodeQueryFails(i)
    \/ \E i \in NodeIds : \E j \in DepIds(i) : DepAcquire(i, j)
    \/ \E i \in NodeIds : \E j \in DepIds(i) : DepEnterCrateDir(i, j)
    \/ \E i \in NodeIds : \E j \in DepIds(i) : DepMaterialize(i, j)
    \/ \E i \in NodeIds : \E j \in DepIds(i) : DepPatch(i, j)
    \/ \E i \in NodeIds : \E j \in DepIds(i) : DepAnalyze(i, j)
    \/ \E i \in NodeIds : \E j \in DepIds(i) : DepCleanup(i, j)
    \/ \E i \in NodeIds : \E j \in DepIds(i) : DepSave(i, j)
    \/ \E i \in NodeIds : NodeFinish(i)
    \/ LevelCollect

\* the analysis is run a second time (main is started again) on the same
\* registry: the first result is kept for comparison, the state of the run
\* starts afresh, and the files of the first run are all still there or
\* were all removed
FreshFiles ==
    /\ archive' = [k \in AllKeys |-> "none"]
    /\ extracted' = [k \in AllKeys |-> FALSE]
    /\ callers' = [k \in AllKeys |-> FALSE]
    /\ artifact' = [k \in AllKeys |-> FALSE]

Rerun ==
    /\ runNo = 1
    /\ pc = "returned"
    /\ runNo' = 2
    /\ firstVisited' = visited
    /\ firstArtifacts' = {k \in AllKeys : artifact[k]}
    /\ pc' = "start"
    /\ ret' = "none"
    /\ visited' = {}
    /\ level' = 0
    /\ registryFailedAt' = -1
    /\ placed' = ZeroCount
    /\ matCount' = ZeroCount
    /\ prepCount' = ZeroCount
    /\ patchCount' = ZeroCount
    /\ runCount' = ZeroCount
    /\ writeCount' = ZeroCount
    /\ reachedKeys' = {}
    /\ members' = {}
    /\ started' = {}
    /\ finished' = {}
    /\ emitter' = {}
    /\ FreshFiles \/ UNCHANGED fsVars
    /\ UNCHANGED <<guardVars, patchVars, dirVars, batchVars, cacheVars, lvVars, runVars, selVars, analyzerOf,
                   registry, queue, levelVars, permits, download_permits, pinned, faults>>

\* the outcome of call-cg4rs is fixed per package name
TwiceInit ==
    /\ runNo = 1
    /\ \E f \in [Names -> AnalyzerOutcomes] : analyzerOf = [k \in AllKeys |-> f[k[1]]]
    /\ firstVisited = {}
    /\ firstArtifacts = {}

TwiceNext == MainNext \/ Rerun

InitTwice == MainInit /\ LevelIdle /\ RunnerIdle /\ SelectIdle /\ CacheIdle /\ BatchIdle /\ DirIdle /\ TwiceInit /\ PatchIdle /\ GuardIdle

SpecTwice == InitTwice /\ [][TwiceNext]_vars

\* C33: for a fixed registry and a fixed analyzer outcome per package, and
\* with no failure of the environment in either run, the second run of the
\* analysis ends with the visited set and the set of artifacts of the
\* first, whatever the interleaving of the tasks and whether the files of
\* the first run are still there or not.
C33_SameResultTwice ==
    (runNo = 2 /\ pc = "returned" /\ faults = 0)
        => /\ visited = firstVisited
           /\ {k \in AllKeys : artifact[k]} = firstArtifacts

Init == MainInit /\ LevelIdle /\ RunnerIdle /\ SelectIdle /\ CacheIdle /\ BatchIdle /\ DirIdle /\ TwiceIdle /\ PatchIdle /\ GuardIdle

Spec == Init /\ [][MainNext]_vars


(***************************************************************************)
(* Properties of a run (checked under Spec)                                *)
(***************************************************************************)

\* C1: during one run every (name, version) pair, a seed as well as a
\* dependent, is popped into a BFS level at most once.
C1_PlacedAtMostOnce == \A k \in AllKeys : placed[k] <= 1

\* C2: for every (name, version) pair the dependent-task materialization,
\* the manifest patch, the call-graph analysis and the artifact write are
\* each executed at most once in a run.
C2_LifecycleAtMostOnce ==
    \A k \in AllKeys :
        /\ matCount[k] <= 1
        /\ patchCount[k] <= 1
        /\ runCount[k] <= 1
        /\ writeCount[k] <= 1

\* C4 (part): a node task of a level has started only if every node of
\* every earlier level has returned.
C4_LevelOrder ==
    \A s \in started : \A m \in members : m[1] < s[1] => m \in finished

\* C4 (part): a node that was emitted has started only if the node that
\* emitted it has returned.
C4_ParentFirst ==
    \A e \in emitter : <<e[1], e[2]>> \in started => <<e[1] - 1, e[3]>> \in finished

NodeInFlight == \E i \in NodeIds : nodeSt[i] \in {"query", "deps"}

\* C4 (part): a step that changes the visited set or the queue is taken
\* only while no node task is in flight.
C4_SerialUpdate == (visited' # visited \/ queue' # queue) => ~NodeInFlight

\* C4: levels are processed in strict order with a barrier between them, a
\* node is never processed before the node that emitted it, and the visited
\* set and the queue change only between levels.  Processing a node is the
\* run of its node task (process_single_bfs_node on it) in process_bfs_level.
C4_LevelBarrier ==
    /\ [](C4_LevelOrder /\ C4_ParentFirst)
    /\ [][C4_SerialUpdate]_mainVars

\* a node of the second level is in flight after a first level of two
\* nodes, one of which emitted it
C4_Witness ==
    /\ level = 2
    /\ NodeInFlight
    /\ Cardinality({m \in members : m[1] = 1}) = 2
    /\ emitter # {}

\* C5: after a run the artifact of a (name, version) exists if and only if
\* the node was analyzed and reported as reached.
C5_ArtifactIffReached ==
    pc = "returned" => \A k \in AllKeys : artifact[k] <=> k \in reachedKeys

\* C7: once a registry query has failed, no further level is processed and
\* analyze returns an error.
C7_RegistryFailureFatal ==
    registryFailedAt >= 0 =>
        /\ level = registryFailedAt
        /\ pc = "returned" => ret = "Err"


\* a dependent task that holds the directory returned by get_crate_dir_path
\* (process_single_bfs_node, lines 314-399)
InScratchDir(i, j) ==
    /\ nodeSt[i] = "deps"
    /\ depSt[i][j].st \in {"patch", "analyze", "cleanup"}

\* C10: two distinct dependent tasks that are at work at the same time never
\* have the same scratch directory path.
C10_DistinctScratchDirs ==
    \A i1 \in NodeIds, i2 \in NodeIds :
        \A j1 \in DepIds(i1), j2 \in DepIds(i2) :
            (<<i1, j1>> # <<i2, j2>> /\ InScratchDir(i1, j1) /\ InScratchDir(i2, j2))
                => get_extract_dir_path(DepKey(i1, j1)) # get_extract_dir_path(DepKey(i2, j2))


\* the seed at the top of the parent chain of the node k of level lv
RECURSIVE seed_of(_, _)
seed_of(lv, k) ==
    IF lv <= 1 \/ ~(\E e \in emitter : e[1] = lv /\ e[2] = k)
    THEN k
    ELSE seed_of(lv - 1, (CHOOSE e \in emitter : e[1] = lv /\ e[2] = k)[3])

\* C12: when a dependent is about to be analyzed, its tree pins the root
\* package at the version of the seed at the top of its parent chain.
C12_PinsRootAtSeed ==
    \A i \in NodeIds : \A j \in DepIds(i) :
        (nodeSt[i] = "deps" /\ depSt[i][j].st = "analyze")
            => pinned[DepKey(i, j)] = Krate(Root, seed_of(level, current_level[i])[2])

\* the records of the registry for the package of node i whose requirement
\* matches the node's version and whose name is n
MatchingRecords(i, n) ==
    SelectSeq(filter_dependents_by_version_req(registry.dependents[current_level[i][1]],
                                               current_level[i][2]),
              LAMBDA dep : dep.name = n)

\* C15: an expansion of a node selects, and emits as children, at most two
\* versions of each dependent name, however many versions match.
C15_TwoEndpoints ==
    \A i \in NodeIds : \A n \in Names :
        /\ nodeSt[i] \in {"deps", "done"}
               => Cardinality({j \in DepIds(i) : nodeDeps[i][j].name = n}) <= 2
        /\ Cardinality({k \in 1..Len(nodeNext[i]) : nodeNext[i][k][1] = n}) <= 2

\* a node with three matching versions of one name has emitted two of them
C15_Witness ==
    \E i \in NodeIds : \E n \in Names :
        /\ nodeSt[i] = "done"
        /\ Len(MatchingRecords(i, n)) > 2
        /\ Cardinality({nodeNext[i][k] : k \in {m \in 1..Len(nodeNext[i]) : nodeNext[i][m][1] = n}}) = 2

\* the key k belongs to a record of some popped node whose requirement
\* parses and matches that node's version
HasMatchingRecord(k) ==
    \E m \in members :
        \E r \in {registry.dependents[m[2][1]][x] : x \in DOMAIN registry.dependents[m[2][1]]} :
            /\ Krate(r.name, r.version) = k
            /\ ReqMatches(r.req, m[2][2])

\* C19: every dependent task of an expansion, and so every child it emits,
\* is for a record whose requirement parses and matches the node's version;
\* a package version known only through records whose requirement does not
\* parse or does not match is never materialized, patched or analyzed.
C19_OnlyMatchingRecords ==
    /\ \A i \in NodeIds :
           /\ nodeSt[i] \in {"deps", "done"}
                  => \A j \in DepIds(i) : ReqMatches(nodeDeps[i][j].req, current_level[i][2])
           /\ \A c \in 1..Len(nodeNext[i]) :
                  \E j \in DepIds(i) :
                      /\ DepKey(i, j) = nodeNext[i][c]
                      /\ ReqMatches(nodeDeps[i][j].req, current_level[i][2])
    /\ \A k \in AllKeys :
           (matCount[k] > 0 \/ prepCount[k] > 0 \/ patchCount[k] > 0 \/ runCount[k] > 0)
               => HasMatchingRecord(k)

\* a node that had a record with a requirement that does not match or does
\* not parse has emitted a child, and that record's package version was
\* never materialized or analyzed
C19_Witness ==
    \E i \in NodeIds :
        /\ nodeSt[i] = "done"
        /\ nodeNext[i] # <<>>
        /\ \E x \in DOMAIN registry.dependents[current_level[i][1]] :
               LET r == registry.dependents[current_level[i][1]][x]
               IN /\ ~ReqMatches(r.req, current_level[i][2])
                  /\ VersionParses(r.version)
                  /\ matCount[Krate(r.name, r.version)] = 0
                  /\ runCount[Krate(r.name, r.version)] = 0

\* the node task of node i got the rows of query_dependents
Expanded(i) ==
    \/ nodeSt[i] = "deps"
    \/ /\ nodeSt[i] = "done"
       /\ \E x \in DOMAIN results : results[x].from = current_level[i] /\ results[x].ok

\* C20: the nodes of level 1 are the seeds.  While they are processed none
\* of them is materialized, patched or analyzed, each one whose registry
\* query succeeds gets a dependent task for every name that has a matching
\* record, and no seed is left out of the level.
C20_SeedsExpandedUnanalyzed ==
    /\ level = 1
           => \A i \in NodeIds :
                  LET k == current_level[i]
                      rows == registry.dependents[k[1]]
                  IN /\ matCount[k] = 0 /\ prepCount[k] = 0
                     /\ patchCount[k] = 0 /\ runCount[k] = 0
                     /\ Expanded(i)
                            => \A x \in DOMAIN rows :
                                   (ReqMatches(rows[x].req, k[2]) /\ VersionParses(rows[x].version))
                                       => \E j \in DepIds(i) : nodeDeps[i][j].name = rows[x].name
    /\ level >= 1
           => \A x \in DOMAIN SeedQueue(registry) : <<1, SeedQueue(registry)[x]>> \in members
    /\ level >= 2
           => \A x \in DOMAIN SeedQueue(registry) : <<1, SeedQueue(registry)[x]>> \in finished

\* a seed that was never materialized or analyzed has emitted a child
C20_Witness ==
    /\ level = 1
    /\ \E i \in NodeIds :
           /\ nodeSt[i] = "done"
           /\ nodeNext[i] # <<>>
           /\ matCount[current_level[i]] = 0
           /\ runCount[current_level[i]] = 0
           /\ current_level[i] \notin reachedKeys

\* a dependent task inside the download-and-extract section of
\* get_crate_dir_path (model.rs, lines 248-292)
Downloading(i, j) == nodeSt[i] = "deps" /\ depSt[i][j].st = "download"

\* C11 (part): at most one task at a time is inside the download-and-extract
\* section for a (name, version).
C11_OneDownloader ==
    \A i1 \in NodeIds, i2 \in NodeIds :
        \A j1 \in DepIds(i1), j2 \in DepIds(i2) :
            (Downloading(i1, j1) /\ Downloading(i2, j2) /\ DepKey(i1, j1) = DepKey(i2, j2))
                => <<i1, j1>> = <<i2, j2>>

\* C11 (part): a step of cleanup_and_return_result (archive deleted, cargo
\* clean) for a key is not taken while another task is inside the
\* download-and-extract section for that key.
C11_CleanupAlone ==
    \A i1 \in NodeIds, i2 \in NodeIds :
        \A j1 \in DepIds(i1), j2 \in DepIds(i2) :
            (/\ nodeSt[i1] = "deps"
             /\ depSt[i1][j1].st = "cleanup"
             /\ depSt'[i1][j1].st = "save"
             /\ DepKey(i1, j1) = DepKey(i2, j2))
                => ~Downloading(i2, j2)

\* C11: the archive and the extracted tree of a (name, version) are never
\* written by two tasks at once: one downloader at a time, and no cleanup
\* while another task downloads or extracts the same key.
C11_NoConcurrentCacheWrite == []C11_OneDownloader /\ [][C11_CleanupAlone]_vars

(***************************************************************************)
(* SpecLevel: one call of process_bfs_level.  The level is an input; the   *)
(* work of a dependent task between taking and dropping its permit is one  *)
(* step that always returns.                                               *)
(***************************************************************************)
MaxLevelNodes == 7

\* a level whose nodes have no selected dependent, or one each
LevelDepCounts == {0, 1}

MainIdle == MainInit /\ registry = RegSingleHop

LevelInit ==
    /\ lvLevel \in {[i \in 1..n |-> d] : n \in 1..MaxLevelNodes, d \in LevelDepCounts}
    /\ lvNodeSt = [i \in DOMAIN lvLevel |-> "pending"]
    /\ lvDepSt = [i \in DOMAIN lvLevel |-> [j \in 1..lvLevel[i] |-> "pending"]]
    /\ lvPermits = MAX_CONCURRENT_TASKS
    /\ lvPc = "level"

LvNodeIds == DOMAIN lvLevel
LvDepIds(i) == DOMAIN lvDepSt[i]

\* a node task that starts without waiting for the buffer or for a permit
LvNodeAcquireUnbounded(i) ==
    /\ lvPc = "level"
    /\ lvNodeSt[i] = "pending"
    /\ lvPermits' = lvPermits - 1
    /\ lvNodeSt' = [lvNodeSt EXCEPT ![i] = "query"]
    /\ UNCHANGED <<guardVars, patchVars, twiceVars, dirVars, batchVars, cacheVars, mainVars, runVars, selVars, lvLevel, lvDepSt, lvPc>>

\* process_bfs_level, line 182: a node task admitted by buffer_unordered
\* takes a permit
LvNodeAcquire(i) ==
    /\ lvPc = "level"
    /\ lvNodeSt[i] = "pending"
    /\ Admitted(lvNodeSt, i)
    /\ lvPermits > 0
    /\ lvPermits' = lvPermits - 1
    /\ lvNodeSt' = [lvNodeSt EXCEPT ![i] = "query"]
    /\ UNCHANGED <<guardVars, patchVars, twiceVars, dirVars, batchVars, cacheVars, mainVars, runVars, selVars, lvLevel, lvDepSt, lvPc>>

\* process_single_bfs_node, lines 221-284: the dependents are selected; with
\* none of them the node task returns and drops its permit
LvNodeQuery(i) ==
    /\ lvPc = "level"
    /\ lvNodeSt[i] = "query"
    /\ IF lvLevel[i] = 0
       THEN /\ lvNodeSt' = [lvNodeSt EXCEPT ![i] = "done"]
            /\ lvPermits' = lvPermits + 1
       ELSE /\ lvNodeSt' = [lvNodeSt EXCEPT ![i] = "deps"]
            /\ UNCHANGED lvPermits
    /\ UNCHANGED <<guardVars, patchVars, twiceVars, dirVars, batchVars, cacheVars, mainVars, runVars, selVars, lvLevel, lvDepSt, lvPc>>

\* process_single_bfs_node, lines 289 and 406: a dependent of the batch
\* being processed that buffer_unordered has polled
LvDepAdmitted(i, j) ==
    /\ \A k \in LvDepIds(i) : BatchOf(k) < BatchOf(j) => lvDepSt[i][k] = "done"
    /\ Cardinality({k \in 1..(j - 1) : /\ BatchOf(k) = BatchOf(j)
                                       /\ lvDepSt[i][k] # "done"}) < MAX_CONCURRENT_TASKS

\* process_single_bfs_node, line 312: the dependent task takes a permit of
\* the semaphore its node task holds a permit of
LvDepAcquire(i, j) ==
    /\ lvPc = "level"
    /\ lvNodeSt[i] = "deps"
    /\ lvDepSt[i][j] = "pending"
    /\ LvDepAdmitted(i, j)
    /\ lvPermits > 0
    /\ lvPermits' = lvPermits - 1
    /\ lvDepSt' = [lvDepSt EXCEPT ![i][j] = "working"]
    /\ UNCHANGED <<guardVars, patchVars, twiceVars, dirVars, batchVars, cacheVars, mainVars, runVars, selVars, lvLevel, lvNodeSt, lvPc>>

\* process_single_bfs_node, lines 313-403: the dependent task returns and
\* drops its permit
LvDepReturn(i, j) ==
    /\ lvPc = "level"
    /\ lvNodeSt[i] = "deps"
    /\ lvDepSt[i][j] = "working"
    /\ lvPermits' = lvPermits + 1
    /\ lvDepSt' = [lvDepSt EXCEPT ![i][j] = "done"]
    /\ UNCHANGED <<guardVars, patchVars, twiceVars, dirVars, batchVars, cacheVars, mainVars, runVars, selVars, lvLevel, lvNodeSt, lvPc>>

\* process_single_bfs_node, line 413: every batch is finished; the node
\* task returns and drops its permit
LvNodeFinish(i) ==
    /\ lvPc = "level"
    /\ lvNodeSt[i] = "deps"
    /\ \A j \in LvDepIds(i) : lvDepSt[i][j] = "done"
    /\ lvNodeSt' = [lvNodeSt EXCEPT ![i] = "done"]
    /\ lvPermits' = lvPermits + 1
    /\ UNCHANGED <<guardVars, patchVars, twiceVars, dirVars, batchVars, cacheVars, mainVars, runVars, selVars, lvLevel, lvDepSt, lvPc>>

\* process_bfs_level, lines 189-209: collect() has every result
LvCollect ==
    /\ lvPc = "level"
    /\ \A i \in LvNodeIds : lvNodeSt[i] = "done"
    /\ lvPc' = "returned"
    /\ UNCHANGED <<guardVars, patchVars, twiceVars, dirVars, batchVars, cacheVars, mainVars, runVars, selVars, lvLevel, lvNodeSt, lvDepSt, lvPermits>>

LevelNext ==
    \/ \E i \in LvNodeIds : LvNodeAcquire(i)
    \/ \E i \in LvNodeIds : LvNodeQuery(i)
    \/ \E i \in LvNodeIds : \E j \in LvDepIds(i) : LvDepAcquire(i, j)
    \/ \E i \in LvNodeIds : \E j \in LvDepIds(i) : LvDepReturn(i, j)
    \/ \E i \in LvNodeIds : LvNodeFinish(i)
    \/ LvCollect

InitLevel == MainIdle /\ LevelInit /\ RunnerIdle /\ SelectIdle /\ CacheIdle /\ BatchIdle /\ DirIdle /\ TwiceIdle /\ PatchIdle /\ GuardIdle

SpecLevel == InitLevel /\ [][LevelNext]_vars

\* the node tasks that are inside process_single_bfs_node
LvNodesInFlight == {i \in LvNodeIds : lvNodeSt[i] \in {"query", "deps"}}

\* C13: the number of nodes of the level that are being processed at the
\* same time never exceeds the nodes-per-level bound MAX_CONCURRENT_TASKS.
C13_NodesInFlightBounded == Cardinality(LvNodesInFlight) <= MAX_CONCURRENT_TASKS

\* the bound is reached in a level that has more nodes than the bound
C13_Witness ==
    /\ Len(lvLevel) > MAX_CONCURRENT_TASKS
    /\ Cardinality(LvNodesInFlight) = MAX_CONCURRENT_TASKS
    /\ \E i \in LvNodeIds : lvNodeSt[i] = "pending"

\* process_single_bfs_node, lines 312-403: the dependent tasks of the level
\* that hold a permit
LvDepsInFlight ==
    {p \in UNION {{<<i, j>> : j \in LvDepIds(i)} : i \in LvNodeIds} :
        lvDepSt[p[1]][p[2]] = "working"}

\* C14: over all nodes of the level, the dependents whose task is in flight
\* never exceed the fan-out bound, and the pool their permits come from is
\* charged by dependent tasks only: a permit held by an in-flight level node
\* is not missing from it.
C14_SeparateDependentPool ==
    /\ Cardinality(LvDepsInFlight) <= MAX_CONCURRENT_TASKS
    /\ lvPermits = MAX_CONCURRENT_TASKS - Cardinality(LvDepsInFlight)

\* a task of the level that can take a step
LvNodeCanStep(i) ==
    \/ lvNodeSt[i] = "query"
    \/ lvNodeSt[i] = "pending" /\ Admitted(lvNodeSt, i) /\ lvPermits > 0
    \/ /\ lvNodeSt[i] = "deps"
       /\ \/ \A j \in LvDepIds(i) : lvDepSt[i][j] = "done"
          \/ \E j \in LvDepIds(i) : lvDepSt[i][j] = "working"
          \/ \E j \in LvDepIds(i) :
                lvDepSt[i][j] = "pending" /\ LvDepAdmitted(i, j) /\ lvPermits > 0

\* C3: while a level is being processed, not every task in flight is blocked
\* on the semaphore: the level is complete or some task can take a step, so
\* that process_bfs_level, and with it analyze, can return.
C3_NoSemaphoreDeadlock ==
    lvPc = "level" =>
        \/ \A i \in LvNodeIds : lvNodeSt[i] = "done"
        \/ \E i \in LvNodeIds : LvNodeCanStep(i)


(***************************************************************************)
(* SpecRunner: one call of run_function_analysis with its call-cg4rs       *)
(* subprocess, as written in callgraph.rs (with graceful_kill_process) and *)
(* as written in dependency_analyzer.rs.  Time passes in whole seconds,    *)
(* and only while the call waits or after it has returned.                 *)
(***************************************************************************)
analysis_timeout_secs == 240
legacy_timeout_secs == 240
graceful_timeout_secs == 10
MaxChildAge == 252

RunnerInit ==
    /\ rImpl \in {"callgraph", "legacy"}
    /\ rPc = "start"
    /\ rResult = "none"
    /\ child = "none"
    /\ handle = "none"
    /\ rFailure = "none"
    /\ childAge = 0
    /\ waited = 0
    /\ grace = 0
    /\ prefilter = "none"
    /\ exitStatus = "none"
    /\ outDir = {}
    /\ cleanRan = "no"
    /\ rSaved = FALSE
    /\ signals = <<>>

\* the function returns (or unwinds): a Child it holds is dropped
RunnerReturns(result, failure) ==
    /\ rPc' = "returned"
    /\ rResult' = result
    /\ rFailure' = IF failure = "none" THEN rFailure ELSE failure
    /\ handle' = IF handle = "held" THEN "dropped" ELSE handle

\* Child::wait() (or Command::output()) of an exited child reaps it
Reaped == "reaped"

\* Child::kill().await: SIGKILL, then wait()
KilledAndReaped == "reaped"

\* the names a file of the output directory can have: the one the runner of
\* dependency_analyzer.rs looks for (line 567) and one that starts with
\* "callers-" and ends with ".json" (callgraph.rs, line 143)
OutputFiles == {"callers.json", "callers-0.json"}

\* callgraph.rs, line 143: fname.starts_with("callers-") && fname.ends_with(".json")
IsCallersFile(f) == f = "callers-0.json"

\* the call-cg4rs process ends by itself, with a status, and leaves the
\* output directory with some files
ChildExits ==
    /\ child = "running"
    /\ child' = "exited"
    /\ exitStatus' \in {"zero", "nonzero"}
    /\ outDir' \in SUBSET OutputFiles
    /\ UNCHANGED <<guardVars, patchVars, twiceVars, dirVars, batchVars, cacheVars, mainVars, lvVars, selVars, signals, prefilter, cleanRan, rSaved, rImpl, rPc, rResult, handle,
                   rFailure, childAge, waited, grace>>

\* the timeout the call in progress sleeps on
WaitLimit == IF rImpl = "legacy" THEN legacy_timeout_secs ELSE analysis_timeout_secs

\* one second passes while the call sleeps on a timer with the child alive,
\* or after the call has returned and left the child running
Tick ==
    /\ child = "running"
    /\ \/ rPc = "wait" /\ waited < WaitLimit
       \/ rPc = "grace" /\ grace < graceful_timeout_secs
       \/ rPc \in {"returned", "cleaned", "done"} /\ childAge < MaxChildAge
    /\ childAge' = childAge + 1
    /\ waited' = IF rPc = "wait" THEN waited + 1 ELSE waited
    /\ grace' = IF rPc = "grace" THEN grace + 1 ELSE grace
    /\ UNCHANGED <<guardVars, patchVars, twiceVars, dirVars, batchVars, cacheVars, mainVars, lvVars, selVars, obsVars, rImpl, rPc, rResult, child, handle, rFailure>>


\* callgraph.rs, lines 48-50: DirGuard::new(..).unwrap()
CgEnter ==
    /\ rImpl = "callgraph"
    /\ rPc = "start"
    /\ \/ /\ rPc' = "prefilter"
          /\ UNCHANGED <<rResult, rFailure, handle>>
       \/ RunnerReturns("Panic", "chdir")
    /\ UNCHANGED <<guardVars, patchVars, twiceVars, dirVars, batchVars, cacheVars, mainVars, lvVars, selVars, obsVars, rImpl, child, childAge, waited, grace>>

\* callgraph.rs, lines 54-61: check_src_contain_target_function(..).await?
CgPrefilter ==
    /\ rImpl = "callgraph"
    /\ rPc = "prefilter"
    /\ \/ /\ prefilter' = "hit"
          /\ rPc' = "logs"
          /\ UNCHANGED <<rResult, rFailure, handle>>
       \/ /\ prefilter' = "miss"
          /\ RunnerReturns("None", "none")
       \/ /\ prefilter' = "error"
          /\ RunnerReturns("Err", "prefilter")
    /\ UNCHANGED <<guardVars, patchVars, twiceVars, dirVars, batchVars, cacheVars, mainVars, lvVars, selVars, signals, exitStatus, outDir, cleanRan, rSaved, rImpl, child,
                   childAge, waited, grace>>

\* callgraph.rs, lines 69-71: create_log_file(..).await.unwrap()
CgCreateLogs ==
    /\ rImpl = "callgraph"
    /\ rPc = "logs"
    /\ \/ /\ rPc' = "spawn"
          /\ UNCHANGED <<rResult, rFailure, handle>>
       \/ RunnerReturns("Panic", "logs")
    /\ UNCHANGED <<guardVars, patchVars, twiceVars, dirVars, batchVars, cacheVars, mainVars, lvVars, selVars, obsVars, rImpl, child, childAge, waited, grace>>

\* callgraph.rs, lines 73-87: Command::new("call-cg4rs")...spawn().unwrap()
CgSpawn ==
    /\ rImpl = "callgraph"
    /\ rPc = "spawn"
    /\ \/ /\ rPc' = "wait"
          /\ child' = "running"
          /\ handle' = "held"
          /\ UNCHANGED <<rResult, rFailure>>
       \/ /\ RunnerReturns("Panic", "spawn")
          /\ UNCHANGED child
    /\ UNCHANGED <<guardVars, patchVars, twiceVars, dirVars, batchVars, cacheVars, mainVars, lvVars, selVars, obsVars, rImpl, childAge, waited, grace>>

\* callgraph.rs, lines 90-92 and 101-110: child.wait() returns the exit
\* status; a failure status returns Ok(None)
CgWaitExit ==
    /\ rImpl = "callgraph"
    /\ rPc = "wait"
    /\ child = "exited"
    /\ child' = Reaped
    /\ IF exitStatus = "zero"
       THEN /\ rPc' = "collect"
            /\ UNCHANGED <<rResult, rFailure, handle>>
       ELSE RunnerReturns("None", "exit_status")
    /\ UNCHANGED <<guardVars, patchVars, twiceVars, dirVars, batchVars, cacheVars, mainVars, lvVars, selVars, obsVars, rImpl, childAge, waited, grace>>

\* callgraph.rs, lines 90-92 and 111-117: child.wait() returns an error
CgWaitError ==
    /\ rImpl = "callgraph"
    /\ rPc = "wait"
    /\ RunnerReturns("None", "wait")
    /\ UNCHANGED <<guardVars, patchVars, twiceVars, dirVars, batchVars, cacheVars, mainVars, lvVars, selVars, obsVars, rImpl, child, childAge, waited, grace>>

\* callgraph.rs, lines 93-96, and graceful_kill_process, lines 10-24: the
\* timer fires; SIGTERM is sent to the child, and if sending it fails the
\* child is killed and the call returns Ok(None) (lines 97, 111-117)
CgTimeout ==
    /\ rImpl = "callgraph"
    /\ rPc = "wait"
    /\ waited = analysis_timeout_secs
    /\ \/ /\ rPc' = "grace"
          /\ rFailure' = "timeout"
          /\ signals' = Append(signals, "SIGTERM")
          /\ UNCHANGED <<rResult, handle, child>>
       \/ /\ child' = KilledAndReaped
          /\ signals' = signals \o <<"SIGTERM_failed", "SIGKILL">>
          /\ RunnerReturns("None", "timeout")
    /\ UNCHANGED <<guardVars, patchVars, twiceVars, dirVars, batchVars, cacheVars, mainVars, lvVars, selVars, prefilter, exitStatus, outDir, cleanRan, rSaved, rImpl, childAge, waited, grace>>

\* graceful_kill_process, lines 28-33: the child exits within the grace time
CgGraceExit ==
    /\ rImpl = "callgraph"
    /\ rPc = "grace"
    /\ child = "exited"
    /\ child' = Reaped
    /\ RunnerReturns("None", "none")
    /\ UNCHANGED <<guardVars, patchVars, twiceVars, dirVars, batchVars, cacheVars, mainVars, lvVars, selVars, obsVars, rImpl, childAge, waited, grace>>

\* graceful_kill_process, lines 34-36 and 51: child.wait() returns an error,
\* which is logged; nothing else is done to the child
CgGraceWaitError ==
    /\ rImpl = "callgraph"
    /\ rPc = "grace"
    /\ RunnerReturns("None", "none")
    /\ UNCHANGED <<guardVars, patchVars, twiceVars, dirVars, batchVars, cacheVars, mainVars, lvVars, selVars, obsVars, rImpl, child, childAge, waited, grace>>

\* a grace timer that fires at once
CgGraceTimeoutAtOnce ==
    /\ rImpl = "callgraph"
    /\ rPc = "grace"
    /\ child' = KilledAndReaped
    /\ signals' = Append(signals, "SIGKILL")
    /\ RunnerReturns("None", "none")
    /\ UNCHANGED <<guardVars, patchVars, twiceVars, dirVars, batchVars, cacheVars, mainVars, lvVars, selVars, prefilter, exitStatus, outDir, cleanRan, rSaved, rImpl, childAge, waited, grace>>

\* graceful_kill_process, lines 40-44: the grace time is over; kill and wait
CgGraceTimeout ==
    /\ rImpl = "callgraph"
    /\ rPc = "grace"
    /\ grace = graceful_timeout_secs
    /\ child' = KilledAndReaped
    /\ signals' = Append(signals, "SIGKILL")
    /\ RunnerReturns("None", "none")
    /\ UNCHANGED <<guardVars, patchVars, twiceVars, dirVars, batchVars, cacheVars, mainVars, lvVars, selVars, prefilter, exitStatus, outDir, cleanRan, rSaved, rImpl, childAge, waited, grace>>

\* callgraph.rs, lines 123-163: the callers-*.json files of the target
\* directory are read; next_entry() and read_to_string() are expect()ed
CgCollect ==
    /\ rImpl = "callgraph"
    /\ rPc = "collect"
    /\ \/ /\ \E f \in outDir : IsCallersFile(f)
          /\ RunnerReturns("Some", "none")
       \/ /\ ~\E f \in outDir : IsCallersFile(f)
          /\ RunnerReturns("None", "none")
       \/ RunnerReturns("Panic", "read")
    /\ UNCHANGED <<guardVars, patchVars, twiceVars, dirVars, batchVars, cacheVars, mainVars, lvVars, selVars, obsVars, rImpl, child, childAge, waited, grace>>


\* a prefilter whose result is not looked at
LegacyPrefilterIgnored ==
    /\ rImpl = "legacy"
    /\ rPc = "start"
    /\ prefilter' \in {"hit", "miss"}
    /\ rPc' = "spawn"
    /\ UNCHANGED <<guardVars, patchVars, twiceVars, dirVars, batchVars, cacheVars, mainVars, lvVars, selVars, signals, exitStatus, outDir, cleanRan, rSaved, rImpl, child,
                   childAge, waited, grace, rResult, rFailure, handle>>

\* dependency_analyzer.rs, lines 520-526: the prefilter, with ? on its error
LegacyPrefilter ==
    /\ rImpl = "legacy"
    /\ rPc = "start"
    /\ \/ /\ prefilter' = "hit"
          /\ rPc' = "spawn"
          /\ UNCHANGED <<rResult, rFailure, handle>>
       \/ /\ prefilter' = "miss"
          /\ RunnerReturns("None", "none")
       \/ /\ prefilter' = "error"
          /\ RunnerReturns("Err", "prefilter")
    /\ UNCHANGED <<guardVars, patchVars, twiceVars, dirVars, batchVars, cacheVars, mainVars, lvVars, selVars, signals, exitStatus, outDir, cleanRan, rSaved, rImpl, child,
                   childAge, waited, grace>>

\* dependency_analyzer.rs, lines 536-553: cmd.output() spawns call-cg4rs; a
\* spawn error is Ok(Err(e)) and returns Ok(None)
LegacySpawn ==
    /\ rImpl = "legacy"
    /\ rPc = "spawn"
    /\ \/ /\ rPc' = "wait"
          /\ child' = "running"
          /\ handle' = "held"
          /\ UNCHANGED <<rResult, rFailure>>
       \/ /\ RunnerReturns("None", "spawn")
          /\ UNCHANGED child
    /\ UNCHANGED <<guardVars, patchVars, twiceVars, dirVars, batchVars, cacheVars, mainVars, lvVars, selVars, obsVars, rImpl, childAge, waited, grace>>

\* dependency_analyzer.rs, lines 548-549 and 560-564: output() returns the
\* output of the exited child; a failure status returns Ok(None)
LegacyOutput ==
    /\ rImpl = "legacy"
    /\ rPc = "wait"
    /\ child = "exited"
    /\ child' = Reaped
    /\ handle' = "dropped"
    /\ IF exitStatus = "zero"
       THEN /\ rPc' = "collect"
            /\ UNCHANGED <<rResult, rFailure>>
       ELSE /\ rPc' = "returned"
            /\ rResult' = "None"
            /\ rFailure' = "exit_status"
    /\ UNCHANGED <<guardVars, patchVars, twiceVars, dirVars, batchVars, cacheVars, mainVars, lvVars, selVars, obsVars, rImpl, childAge, waited, grace>>

\* dependency_analyzer.rs, lines 550-553: output() returns an error
LegacyOutputError ==
    /\ rImpl = "legacy"
    /\ rPc = "wait"
    /\ RunnerReturns("None", "wait")
    /\ UNCHANGED <<guardVars, patchVars, twiceVars, dirVars, batchVars, cacheVars, mainVars, lvVars, selVars, obsVars, rImpl, child, childAge, waited, grace>>

\* dependency_analyzer.rs, lines 548 and 554-557: timeout() drops the
\* output() future and the Child in it (kill_on_drop is not set); Ok(None)
LegacyTimeout ==
    /\ rImpl = "legacy"
    /\ rPc = "wait"
    /\ waited = legacy_timeout_secs
    /\ RunnerReturns("None", "timeout")
    /\ UNCHANGED <<guardVars, patchVars, twiceVars, dirVars, batchVars, cacheVars, mainVars, lvVars, selVars, obsVars, rImpl, child, childAge, waited, grace>>

\* dependency_analyzer.rs, lines 567-582: callers.json is looked for and read
LegacyCollect ==
    /\ rImpl = "legacy"
    /\ rPc = "collect"
    /\ \/ /\ "callers.json" \in outDir
          /\ \/ RunnerReturns("Some", "none")
             \/ RunnerReturns("Err", "read")
       \/ /\ "callers.json" \notin outDir
          /\ RunnerReturns("None", "none")
    /\ UNCHANGED <<guardVars, patchVars, twiceVars, dirVars, batchVars, cacheVars, mainVars, lvVars, selVars, obsVars, rImpl, child, childAge, waited, grace>>

\* analyze_function_calls, lines 477-480, cleanup_and_return_result: the
\* archive is removed and `cargo clean` runs in the crate directory, which
\* removes the output directory unless the manifest is missing or cargo
\* fails; Err becomes None
LegacyCleanup ==
    /\ rImpl = "legacy"
    /\ rPc = "returned"
    /\ rPc' = "cleaned"
    /\ cleanRan' = child
    /\ outDir' \in {outDir, {}}
    /\ rResult' = IF rResult = "Some" THEN "Some" ELSE "None"
    /\ UNCHANGED <<guardVars, patchVars, twiceVars, dirVars, batchVars, cacheVars, mainVars, lvVars, selVars, signals, prefilter, exitStatus, rSaved, rImpl, child, handle,
                   rFailure, childAge, waited, grace>>

\* analyze_function_calls, lines 482-492, save_analysis_result: for Some the
\* file target/callers.json of the crate is copied to the artifact; a copy
\* that fails is logged; the Option is returned
LegacySave ==
    /\ rImpl = "legacy"
    /\ rPc = "cleaned"
    /\ rPc' = "done"
    /\ rSaved' = (rResult = "Some" /\ "callers.json" \in outDir)
    /\ UNCHANGED <<guardVars, patchVars, twiceVars, dirVars, batchVars, cacheVars, mainVars, lvVars, selVars, signals, prefilter, exitStatus, outDir, cleanRan, rImpl, rResult,
                   child, handle, rFailure, childAge, waited, grace>>

RunnerNext ==
    \/ CgEnter
    \/ CgPrefilter
    \/ CgCreateLogs
    \/ CgSpawn
    \/ CgWaitExit
    \/ CgWaitError
    \/ CgTimeout
    \/ CgGraceExit
    \/ CgGraceWaitError
    \/ CgGraceTimeout
    \/ CgCollect
    \/ LegacyPrefilter
    \/ LegacySpawn
    \/ LegacyOutput
    \/ LegacyOutputError
    \/ LegacyTimeout
    \/ LegacyCollect
    \/ LegacyCleanup
    \/ LegacySave
    \/ ChildExits
    \/ Tick

InitRunner == MainIdle /\ LevelIdle /\ RunnerInit /\ SelectIdle /\ CacheIdle /\ BatchIdle /\ DirIdle /\ TwiceIdle /\ PatchIdle /\ GuardIdle

SpecRunner == InitRunner /\ [][RunnerNext]_vars

\* the per-node failures of an analyzer run
PerNodeFailures == {"prefilter", "logs", "spawn", "exit_status", "timeout"}

\* C6: a call that met a per-node failure (prefilter error, log files not
\* created, analyzer not spawned, non-zero exit, timeout) ends by returning
\* no result; it neither panics nor reports the dependent as reached.
C6_FailureContained ==
    (rPc = "returned" /\ rFailure \in PerNodeFailures) => rResult \in {"None", "Err"}

\* C8: an analyzer subprocess is never still running more than 240 + 10
\* seconds after it was spawned.
C8_TerminatedInTime ==
    child = "running" => childAge <= analysis_timeout_secs + graceful_timeout_secs

\* C9: whenever the handle of the analyzer subprocess has been dropped, the
\* subprocess has exited and has been waited on.
C9_NoSubprocessLeak == handle = "dropped" => child = "reaped"


(***************************************************************************)
(* The selection functions on inputs given to them (SpecSelect)            *)
(***************************************************************************)
MaxLen == 3

SeqsUpTo(S, n) == UNION {[1..k -> S] : k \in 0..n}

\* the version strings and ranges the functions are applied to
VersionStrings == 0..MaxVer
Ranges == {Req(vs) : vs \in SUBSET Vers} \cup {BadReq}

\* versions 0.5.0, 0.9.0, 1.0.0, 1.1.0, 1.2.0 by precedence rank, and the
\* range ">=1.0.0, <1.2.0"
ExampleVersions == <<1, 2, 3, 4, 5>>
ExampleRange == Req({3, 4})

\* the reverse-dependency records of a node at version 1: of libB with a
\* requirement that matches or does not parse, and of libC
RevdepRecords ==
    {ReverseDependency("libB", v, r) : v \in VersionStrings, r \in {Req({1}), BadReq}}
        \cup {ReverseDependency("libC", v, Req({1, 2})) : v \in VersionStrings}

\* the range ">=0.0.0" of get_reverse_deps_for_krate, line 44
GeZero == Req(Vers)

\* the targets of a list: empty (nothing between two commas), a bare name,
\* or a name qualified by a module path
TargetNames == {"digest", "update"}
TargetPaths == {<<>>} \cup {<<n>> : n \in TargetNames} \cup {<<"hash", n>> : n \in TargetNames}

SelectInit ==
    /\ \/ /\ sVersions \in SeqsUpTo(VersionStrings, MaxLen) \cup {ExampleVersions}
          /\ sRange \in Ranges \cup {ExampleRange}
          /\ sRevdeps = <<>>
          /\ sPrecise = 1
          /\ sPc = "input"
          /\ sTargets = <<>> /\ sSource = {} /\ sGrepErr = {}
       \/ /\ sVersions = <<>>
          /\ sRange = GeZero
          /\ \/ sRevdeps \in SeqsUpTo(RevdepRecords, MaxLen) /\ sPrecise = 1
             \/ sRevdeps \in SeqsUpTo(RevdepRecords, 1) /\ sPrecise = 0
          /\ sPc = "input"
          /\ sTargets = <<>> /\ sSource = {} /\ sGrepErr = {}
       \/ /\ sVersions = <<>>
          /\ sRange = GeZero
          /\ sRevdeps = <<>>
          /\ sPrecise = 1
          /\ sPc = "targets"
          /\ sTargets \in SeqsUpTo(TargetPaths, MaxLen)
          /\ sSource \in SUBSET TargetNames
          /\ sGrepErr \in SUBSET TargetNames
    /\ sHit = "none"
    /\ sSelected = <<>>
    /\ sSeeds = <<>>
    /\ sDeps = <<>>

\* utils.rs filter_versions_by_version_range, lines 94-102, for a range that
\* VersionReq::parse accepts
filter_versions_by_version_range(versions, version_range) ==
    SelectSeq(versions, LAMBDA s : VersionParses(s) /\ ReqMatches(version_range, s))

\* utils.rs select_two_end_vers: the indices are those that
\* select_oldest_and_newest_versions gives in the list it is handed
select_two_end_vers(versions, version_range) ==
    select_oldest_and_newest_versions(filter_versions_by_version_range(versions, version_range))

\* utils.rs select_two_end_vers called; line 93 unwraps the parsed range
SelectTwoEndVers ==
    /\ sPc = "input"
    /\ IF sRange.valid
       THEN /\ sSelected' = select_two_end_vers(sVersions, sRange)
            /\ sPc' = "selected"
       ELSE /\ sSelected' = sSelected
            /\ sPc' = "panicked"
    /\ UNCHANGED <<guardVars, patchVars, twiceVars, dirVars, batchVars, cacheVars, mainVars, lvVars, runVars, sTargets, sSource, sGrepErr, sHit, sVersions, sRange, sRevdeps, sPrecise, sSeeds, sDeps>>

\* analyze, lines 86-121, up to the seed queue; line 86 unwraps the parsed range
AnalyzeSeeds ==
    /\ sPc = "input"
    /\ IF sRange.valid
       THEN /\ sSeeds' = SeedQueue([versions |-> sVersions, range |-> sRange])
            /\ sPc' = "seeded"
       ELSE /\ sSeeds' = sSeeds
            /\ sPc' = "panicked"
    /\ UNCHANGED <<guardVars, patchVars, twiceVars, dirVars, batchVars, cacheVars, mainVars, lvVars, runVars, sTargets, sSource, sGrepErr, sHit, sVersions, sRange, sRevdeps, sPrecise, sSelected, sDeps>>

\* utils.rs filter_dependents_by_version_req, lines 66-73, for a
\* precise_version that parses
utils_filter_dependents_by_version_req(dependents, precise_version) ==
    SelectSeq(dependents, LAMBDA dep : ReqMatches(dep.req, precise_version))

\* get_reverse_deps_for_krate, lines 30-35: the entry of dependents_map for a name
RevdepsOf(deps, n) == SelectSeq(deps, LAMBDA dep : dep.name = n)

\* get_reverse_deps_for_krate, lines 38-50: the records picked from one entry
PickedOf(revdeps) ==
    LET sel == select_two_end_vers([k \in 1..Len(revdeps) |-> revdeps[k].version], GeZero)
    IN [k \in 1..Len(sel) |-> revdeps[sel[k][1]]]

\* get_reverse_deps_for_krate, lines 37-55: the picked records of every entry,
\* in one iteration order of dependents_map
PickedDependents(deps) ==
    LET nameOrder == CHOOSE o \in Orderings({deps[k].name : k \in DOMAIN deps}) : TRUE
    IN Flatten([k \in 1..Len(nameOrder) |-> PickedOf(RevdepsOf(deps, nameOrder[k]))])

\* get_reverse_deps_for_krate: Err when precise_version does not parse (line
\* 65), else the picked records.  The order sort() leaves them in (line 57) is
\* given by an Ord implementation that ReverseDependency does not have in the
\* sources: any order.
GetReverseDeps ==
    /\ sPc = "input"
    /\ IF VersionParses(sPrecise)
       THEN LET picked == PickedDependents(
                               utils_filter_dependents_by_version_req(sRevdeps, sPrecise))
            IN \E order \in Orderings(DOMAIN picked) :
                 /\ sDeps' = [k \in DOMAIN picked |-> picked[order[k]]]
                 /\ sPc' = "revdeps"
       ELSE /\ sDeps' = sDeps
            /\ sPc' = "revdeps_err"
    /\ UNCHANGED <<guardVars, patchVars, twiceVars, dirVars, batchVars, cacheVars, mainVars, lvVars, runVars, sTargets, sSource, sGrepErr, sHit, sVersions, sRange, sRevdeps, sPrecise, sSelected, sSeeds>>

\* one run of grep -r for a pattern that is a name: status 0 with a match,
\* status 1 and no output without one, another status on an error
Grep(name) ==
    IF name \in sGrepErr THEN "err" ELSE IF name \in sSource THEN "true" ELSE "false"

\* callgraph.rs check_src_contain_target_function, lines 170-186: the
\* targets in order, empty ones skipped; the first hit or error ends the scan
RECURSIVE ScanTargets(_)
ScanTargets(targets) ==
    IF targets = <<>> THEN "false"
    ELSE IF Head(targets) = <<>> THEN ScanTargets(Tail(targets))
    ELSE LET found == Grep(Head(targets)[Len(Head(targets))])
         IN IF found = "false" THEN ScanTargets(Tail(targets)) ELSE found

\* callgraph.rs check_src_contain_target_function called
CheckSrcCallgraph ==
    /\ sPc = "targets"
    /\ sHit' = ScanTargets(sTargets)
    /\ sPc' = "checked_callgraph"
    /\ UNCHANGED <<guardVars, patchVars, twiceVars, dirVars, batchVars, cacheVars, mainVars, lvVars, runVars, sTargets, sSource, sGrepErr, sVersions, sRange,
                   sRevdeps, sPrecise, sSelected, sSeeds, sDeps>>

\* DependencyAnalyzer::check_src_contain_target_function, line 590:
\* target_function_path.split("::").last() of the whole list.  The pattern
\* starts in the last target that holds a "::" (in the first target when none
\* does) and runs to the end of the list, commas included; it is given as
\* the pieces between its commas.
LegacyPattern(targets) ==
    IF targets = <<>> THEN <<"">>
    ELSE LET qualified == {i \in DOMAIN targets : Len(targets[i]) > 1}
             from == IF qualified = {} THEN 1
                     ELSE CHOOSE i \in qualified : \A j \in qualified : j <= i
         IN [k \in 1..(Len(targets) - from + 1) |->
                IF targets[from + k - 1] = <<>> THEN ""
                ELSE targets[from + k - 1][Len(targets[from + k - 1])]]

\* DependencyAnalyzer::check_src_contain_target_function called: one grep.
\* Whether a pattern that is empty or holds a comma occurs is not given by
\* the names in the tree.
CheckSrcLegacy ==
    /\ sPc = "targets"
    /\ LET pattern == LegacyPattern(sTargets)
       IN IF Len(pattern) = 1 /\ pattern[1] # ""
          THEN sHit' = Grep(pattern[1])
          ELSE sHit' \in {"true", "false", "err"}
    /\ sPc' = "checked_legacy"
    /\ UNCHANGED <<guardVars, patchVars, twiceVars, dirVars, batchVars, cacheVars, mainVars, lvVars, runVars, sTargets, sSource, sGrepErr, sVersions, sRange,
                   sRevdeps, sPrecise, sSelected, sSeeds, sDeps>>

SelectNext ==
    \/ CheckSrcCallgraph
    \/ CheckSrcLegacy
    \/ SelectTwoEndVers
    \/ AnalyzeSeeds
    \/ GetReverseDeps

InitSelect == MainIdle /\ LevelIdle /\ RunnerIdle /\ SelectInit /\ CacheIdle /\ BatchIdle /\ DirIdle /\ TwiceIdle /\ PatchIdle /\ GuardIdle

SpecSelect == InitSelect /\ [][SelectNext]_vars

\* the positions of the elements of versions that parse and satisfy range
MatchingPositions(versions, range) ==
    {i \in DOMAIN versions : VersionParses(versions[i]) /\ ReqMatches(range, versions[i])}

\* the reference selection: nothing, the one matching element, or the
\* minimum and the maximum of the matching elements, oldest first
ReferenceTwoEnds(versions, range) ==
    LET M == MatchingPositions(versions, range)
        vs == {versions[i] : i \in M}
    IN IF M = {} THEN <<>>
       ELSE IF Cardinality(M) = 1 THEN <<versions[CHOOSE i \in M : TRUE]>>
       ELSE <<CHOOSE v \in vs : \A w \in vs : v <= w, CHOOSE v \in vs : \A w \in vs : w <= v>>

\* C16: the versions select_two_end_vers returns are the reference selection
\* of its input: empty, the single matching element, or (minimum, maximum).
C16_EqualsReference ==
    sPc = "selected"
        => [k \in DOMAIN sSelected |-> sSelected[k][2]] = ReferenceTwoEnds(sVersions, sRange)

\* the input holds an unparseable string and lists the newest matching
\* version before the oldest; both ends were returned
C16_Witness ==
    /\ sPc = "selected"
    /\ \E i \in DOMAIN sVersions : ~VersionParses(sVersions[i])
    /\ \E i, j \in MatchingPositions(sVersions, sRange) : i < j /\ sVersions[i] > sVersions[j]
    /\ Len(sSelected) = 2
    /\ sSelected[1][2] < sSelected[2][2]

\* C17: the index of every pair that select_two_end_vers returns is the
\* position, in the input it was given, of the string that parses to the
\* pair's version, and every record get_reverse_deps_for_krate picks by such
\* an index has a version that the selector returned for its name.
C17_IndexInOriginal ==
    /\ sPc = "selected"
           => \A k \in DOMAIN sSelected :
                  /\ sSelected[k][1] \in DOMAIN sVersions
                  /\ sVersions[sSelected[k][1]] = sSelected[k][2]
    /\ sPc = "revdeps"
           => \A k \in DOMAIN sDeps :
                  LET group == RevdepsOf(utils_filter_dependents_by_version_req(sRevdeps, sPrecise),
                                         sDeps[k].name)
                      sel == select_two_end_vers([m \in DOMAIN group |-> group[m].version], GeZero)
                  IN \E m \in DOMAIN sel : sel[m][2] = sDeps[k].version

\* C18: the seed queue analyze builds is the reference selection over the
\* published versions of the root and the user's range: one seed for one
\* match, the oldest and the newest for several, unparseable strings ignored.
C18_SeedsAreSelection ==
    sPc = "seeded"
        => LET ref == ReferenceTwoEnds(sVersions, sRange)
           IN sSeeds = [k \in DOMAIN ref |-> Krate(Root, ref[k])]

\* versions 0.5.0, 0.9.0, 1.0.0, 1.1.0, 1.2.0 with ">=1.0.0, <1.2.0" gave the
\* seeds 1.0.0 and 1.1.0
C18_Witness ==
    /\ sPc = "seeded"
    /\ sVersions = ExampleVersions
    /\ sRange = ExampleRange
    /\ sSeeds = <<Krate(Root, 3), Krate(Root, 4)>>


(***************************************************************************)
(* Further properties of a run (checked under Spec)                        *)
(***************************************************************************)
\* C21: when no published version of the root satisfies the range, no level
\* is processed, no dependents query is issued, nothing is downloaded, no
\* analyzer runs and no artifact is written, and analyze, unless its own
\* registry query failed, returns Ok.
C21_NoMatchNoWork ==
    MatchingPositions(registry.versions, registry.range) = {}
        => /\ level = 0
           /\ members = {} /\ started = {}
           /\ \A k \in AllKeys :
                  /\ matCount[k] = 0 /\ prepCount[k] = 0 /\ runCount[k] = 0 /\ writeCount[k] = 0
                  /\ archive[k] = "none" /\ ~extracted[k] /\ ~artifact[k]
           /\ (pc = "returned" /\ registryFailedAt = -1) => ret = "Ok"

\* analyze has returned Ok for a root that has published versions, none of
\* which satisfies the range
C21_Witness ==
    /\ registry.versions # <<>>
    /\ MatchingPositions(registry.versions, registry.range) = {}
    /\ pc = "returned"
    /\ ret = "Ok"
    /\ level = 0

\* the deepest level a node was popped into
TreeDepth ==
    IF members = {} THEN 0
    ELSE CHOOSE d \in {m[1] : m \in members} : \A m \in members : m[1] <= d

\* C22: when the run has terminated, visited is the set of the nodes that
\* were processed in some level, seeds included, and the level count is the
\* depth of the tree; with one seed libA 1 and one reaching dependent libB 1,
\* visited is {libA 1, libB 1} and the level count is 2.
C22_VisitedIsProcessed ==
    pc = "returned"
        => /\ visited = {m[2] : m \in members}
           /\ level = TreeDepth
           /\ (registry = RegSingleHop /\ Krate("libB", 1) \in reachedKeys)
                  => /\ visited = {Krate("libA", 1), Krate("libB", 1)}
                     /\ level = 2

\* C23: after a run that returned Ok, the artifact of every seed exists,
\* whether or not a dependent of it reaches the target.
C23_SeedArtifacts ==
    (pc = "returned" /\ ret = "Ok")
        => \A m \in members : m[1] = 1 => artifact[m[2]]


(***************************************************************************)
(* Further properties of an analyzer run (checked under SpecRunner)        *)
(***************************************************************************)
\* C24: when the prefilter reports no hit, call-cg4rs is never spawned, the
\* call and its caller return no result (the node is not reached and
\* contributes no child), and no artifact is written.
C24_MissNeverSpawns ==
    prefilter = "miss"
        => /\ child = "none" /\ handle = "none" /\ exitStatus = "none"
           /\ rPc \in {"returned", "cleaned", "done"}
           /\ rResult = "None"
           /\ ~rSaved

\* analyze_function_calls is through with a crate the prefilter missed
C24_Witness ==
    /\ prefilter = "miss"
    /\ rPc = "done"
    /\ rResult = "None"
    /\ child = "none"

\* the analyzer exited with status zero and the 240-second timer had not fired
ExitedZeroInTime == exitStatus = "zero" /\ rFailure # "timeout" /\ rPc # "wait"

\* C25: run_function_analysis returns Some if and only if the prefilter hit,
\* the analyzer exited with status zero before the deadline and the output
\* directory holds a callers-*.json file; a non-zero exit, a timeout and an
\* output directory without such a file each give Ok(None).
C25_ReachedIffOutput ==
    rPc = "returned"
        => /\ rResult = "Some"
                  <=> /\ prefilter = "hit"
                      /\ ExitedZeroInTime
                      /\ \E f \in outDir : IsCallersFile(f)
           /\ rFailure \in {"exit_status", "timeout"} => rResult = "None"
           /\ (prefilter = "hit" /\ ExitedZeroInTime /\ ~\E f \in outDir : IsCallersFile(f))
                  => rResult = "None"

\* C27: when analyze_function_calls is through with a crate whose analyzer
\* was spawned, the analyzer has exited, whatever its outcome, and the
\* build-output cleanup ran after that exit.
C27_CleanupAfterExit ==
    (rPc = "done" /\ child # "none")
        => /\ child \in {"exited", "reaped"}
           /\ cleanRan \in {"exited", "reaped"}


(***************************************************************************)
(* The prefilter (checked under SpecSelect)                                *)
(***************************************************************************)
\* the leaf names of the non-empty targets, in the order of the list
TargetLeaves == [k \in DOMAIN SelectSeq(sTargets, LAMBDA t : t # <<>>) |->
                    LET t == SelectSeq(sTargets, LAMBDA u : u # <<>>)[k] IN t[Len(t)]]

\* the position of the first leaf that occurs in the source tree or whose
\* search fails, 0 if there is none
FirstDecisive ==
    LET ds == {k \in DOMAIN TargetLeaves :
                  TargetLeaves[k] \in sSource \/ TargetLeaves[k] \in sGrepErr}
    IN IF ds = {} THEN 0 ELSE CHOOSE k \in ds : \A m \in ds : k <= m

\* C26: the prefilter returns Ok(true) exactly when, going through the
\* non-empty targets in order, a leaf name that occurs in the source tree is
\* found before any search fails; Ok(false) only when every leaf was searched
\* without error and none occurs; Err when a search fails, never Ok(false).
C26_ThreeWayResult ==
    sPc \in {"checked_callgraph", "checked_legacy"}
        => /\ sHit = "true"
                  <=> /\ FirstDecisive # 0
                      /\ TargetLeaves[FirstDecisive] \notin sGrepErr
           /\ sHit = "false" <=> FirstDecisive = 0
           /\ sHit = "err"
                  <=> /\ FirstDecisive # 0
                      /\ TargetLeaves[FirstDecisive] \in sGrepErr

\* C36: on a timeout of call-cg4rs, graceful_kill_process sends SIGTERM
\* before anything else; SIGKILL follows only when SIGTERM could not be
\* sent or when the grace time of 10 seconds is over, so none is sent to a
\* process that exits within the grace time; and the call then returns
\* "not reached".
C36_TermBeforeKill ==
    /\ (rImpl = "callgraph" /\ rFailure = "timeout") => signals # <<>>
    /\ signals \in {<<>>, <<"SIGTERM">>, <<"SIGTERM", "SIGKILL">>,
                    <<"SIGTERM_failed", "SIGKILL">>}
    /\ signals = <<"SIGTERM", "SIGKILL">> => grace = graceful_timeout_secs
    /\ (signals # <<>> /\ rPc = "returned") => rResult = "None"

\* the grace time passed and the child was killed
C36_Witness ==
    /\ signals = <<"SIGTERM", "SIGKILL">>
    /\ rPc = "returned"
    /\ child = "reaped"

\* The steps of a dependent task (checked under Spec)

\* what C37 requires of a step of the level for the dependent task j of node i
OrderedStep(i, j) ==
    LET before == depSt[i][j].st
        after == depSt'[i][j].st
        k == DepKey(i, j)
    IN  /\ (after = "patch" /\ before # "patch")
              => before \in {"materialize", "download"} /\ extracted'[k]
        /\ (after = "analyze" /\ before # "analyze")
              => /\ before = "patch"
                 /\ patchCount'[k] = patchCount[k] + 1
                 /\ faults' = faults
        /\ (before = "patch" /\ after \notin {"patch", "analyze"})
              => /\ after = "done" /\ depSt'[i][j].res = "None"
                 /\ nodeNext'[i] = nodeNext[i]
                 /\ runCount' = runCount /\ prepCount' = prepCount

\* C37: a dependent task materializes, then patches, then analyzes, with
\* one patch before each analysis: the analysis (prefilter and analyzer)
\* starts only in a task whose materialization and patch succeeded, and a
\* task whose patch failed or timed out ends without analysis and without
\* a child.
C37_MaterializePatchAnalyze ==
    [][(pc = "level" /\ pc' = "level" /\ nodeDeps' = nodeDeps)
          => /\ \A i \in NodeIds : \A j \in DepIds(i) : OrderedStep(i, j)
             /\ \A k \in AllKeys :
                   runCount'[k] # runCount[k]
                      => \E i \in NodeIds : \E j \in DepIds(i) :
                            /\ DepKey(i, j) = k
                            /\ depSt[i][j].st = "analyze"
                            /\ depSt'[i][j].st # "analyze"]_vars

\* a dependent was analyzed after its patch
C37_Witness ==
    /\ pc = "level"
    /\ \E i \in NodeIds : \E j \in DepIds(i) :
          /\ depSt[i][j].st = "cleanup"
          /\ patchCount[DepKey(i, j)] >= 1
          /\ runCount[DepKey(i, j)] >= 1

\* ---------------------------------------------------------------------
\* The crate cache and the copy validation (SpecCache)
\* ---------------------------------------------------------------------

\* the calls of get_crate_dir_path() followed for one key
MaxCalls == 3

\* the entries a directory of the copy holds at most
MaxEntries == 3

\* validate_copied_files, line 487
critical_files == {"Cargo.toml", "src/lib.rs", "src/main.rs"}

\* the entries of a directory that its critical files account for:
\* Cargo.toml itself and the directory src
TopEntries(files) ==
    (IF "Cargo.toml" \in files THEN 1 ELSE 0)
    + (IF files \cap {"src/lib.rs", "src/main.rs"} # {} THEN 1 ELSE 0)

\* the state before the first call for a key whose cache is empty
CacheCalls ==
    /\ crateFile = "none"
    /\ extractDir = "none"
    /\ cPc = "idle"
    /\ dlRet = "none"
    /\ dirRet = "none"
    /\ cCalls = 0
    /\ fromCritical = {}
    /\ toCritical = {}
    /\ fromEntries = 0
    /\ toEntries = 0
    /\ fromReadable = TRUE
    /\ toReadable = TRUE
    /\ vRet = "none"
    /\ fromExists = TRUE
    /\ attempt = 0
    /\ rsyncStatus = "none"
    /\ last_error = "none"
    /\ cRet = "none"

\* copy_dir, line 392
max_retries == 3

\* what an rsync invocation can do: exit with status 0, with status 24,
\* with another status or by a signal, or not start at all
RsyncStatuses == {"0", "24", "other", "noexec"}

\* the state after the last rsync of a call of copy_dir ended with status
\* 24: any source and any destination directory
CacheCopied ==
    /\ crateFile = "none"
    /\ extractDir = "none"
    /\ cPc = "copied"
    /\ dlRet = "none"
    /\ dirRet = "none"
    /\ cCalls = 0
    /\ fromCritical \in SUBSET critical_files
    /\ toCritical \in SUBSET critical_files
    /\ fromEntries \in TopEntries(fromCritical)..MaxEntries
    /\ toEntries \in TopEntries(toCritical)..MaxEntries
    /\ fromReadable \in BOOLEAN
    /\ toReadable \in BOOLEAN
    /\ vRet = "none"
    /\ fromExists = TRUE
    /\ attempt = max_retries
    /\ rsyncStatus = "24"
    /\ last_error \in {"validation", "rsync"}
    /\ cRet = "none"

\* the state at the entry of copy_dir: a source that exists or not, and a
\* destination that holds nothing yet
CacheCopying ==
    /\ crateFile = "none"
    /\ extractDir = "none"
    /\ cPc = "copy_dir"
    /\ dlRet = "none"
    /\ dirRet = "none"
    /\ cCalls = 0
    /\ fromExists \in BOOLEAN
    /\ fromCritical \in (IF fromExists THEN SUBSET critical_files ELSE {{}})
    /\ fromEntries \in (IF fromExists THEN TopEntries(fromCritical)..MaxEntries ELSE {0})
    /\ fromReadable = fromExists
    /\ toCritical = {}
    /\ toEntries = 0
    /\ toReadable = TRUE
    /\ vRet = "none"
    /\ attempt = 0
    /\ rsyncStatus = "none"
    /\ last_error = "none"
    /\ cRet = "none"

CacheInit == CacheCalls \/ CacheCopied \/ CacheCopying

\* get_crate_dir_path, lines 227-246: an extract directory that exists is
\* returned as it is; otherwise the download follows
GetCrateDirPath ==
    /\ cPc \in {"idle", "returned"}
    /\ cCalls < MaxCalls
    /\ cCalls' = cCalls + 1
    /\ dlRet' = "none"
    /\ IF extractDir # "none"
       THEN cPc' = "returned" /\ dirRet' = "Ok"
       ELSE cPc' = "download" /\ dirRet' = "none"
    /\ UNCHANGED <<guardVars, patchVars, twiceVars, dirVars, batchVars, mainVars, lvVars, runVars, selVars, copyVars, crateFile, extractDir, fromCritical,
                   toCritical, fromEntries, toEntries, fromReadable, toReadable, vRet>>

\* download, lines 74-139, as get_crate_dir_path calls it (lines 251-260):
\* a crate file that exists ends the call with Ok; otherwise curl runs, and
\* the call ends with Ok when the file it leaves is not empty, with Err when
\* the file is missing or empty (the empty file stays)
download ==
    /\ cPc = "download"
    /\ \/ /\ crateFile # "none"
          /\ dlRet' = "Ok" /\ cPc' = "unzip"
          /\ UNCHANGED <<crateFile, dirRet>>
       \/ /\ crateFile = "none"
          /\ \/ /\ crateFile' = "full"
                /\ dlRet' = "Ok" /\ cPc' = "unzip"
                /\ UNCHANGED dirRet
             \/ /\ crateFile' \in {"none", "empty"}
                /\ dlRet' = "Err" /\ cPc' = "returned" /\ dirRet' = "Err"
    /\ UNCHANGED <<guardVars, patchVars, twiceVars, dirVars, batchVars, mainVars, lvVars, runVars, selVars, copyVars, extractDir, cCalls, fromCritical,
                   toCritical, fromEntries, toEntries, fromReadable, toReadable, vRet>>

\* unzip, lines 142-224, and the check of lines 278-291: tar extracts a full
\* archive, or fails and leaves nothing or a part of the tree; an empty
\* archive yields no directory
unzip ==
    /\ cPc = "unzip"
    /\ cPc' = "returned"
    /\ IF extractDir # "none"
       THEN dirRet' = "Ok" /\ UNCHANGED extractDir
       ELSE IF crateFile = "full"
       THEN \/ extractDir' = "manifest" /\ dirRet' = "Ok"
            \/ extractDir' \in {"none", "nomanifest"} /\ dirRet' = "Err"
       ELSE dirRet' = "Err" /\ UNCHANGED extractDir
    /\ UNCHANGED <<guardVars, patchVars, twiceVars, dirVars, batchVars, mainVars, lvVars, runVars, selVars, copyVars, crateFile, dlRet, cCalls, fromCritical,
                   toCritical, fromEntries, toEntries, fromReadable, toReadable, vRet>>

\* cleanup_crate_file, lines 298-312, which follows the analysis of a crate
\* whose directory was returned: the crate file is removed
cleanup_crate_file ==
    /\ cPc = "returned"
    /\ dirRet = "Ok"
    /\ crateFile # "none"
    /\ crateFile' = "none"
    /\ UNCHANGED <<guardVars, patchVars, twiceVars, dirVars, batchVars, mainVars, lvVars, runVars, selVars, copyVars, extractDir, cPc, dlRet, dirRet, cCalls,
                   fromCritical, toCritical, fromEntries, toEntries, fromReadable,
                   toReadable, vRet>>

\* validate_copied_files, lines 485-527: the value it returns for a source
\* and a destination; a destination that cannot be read counts no entry, a
\* source that cannot be read is not counted at all
validate_copied_files(fromFiles, toFiles, from_n, to_n, from_ok, to_ok) ==
    IF \E file \in critical_files : file \in fromFiles /\ file \notin toFiles
    THEN FALSE
    ELSE IF from_ok
    THEN LET from_count == from_n
             to_count == IF to_ok THEN to_n ELSE 0
         IN  ~(to_count < from_count \div 2)
    ELSE TRUE

\* copy_dir, lines 438-439: the validation after an rsync that ended with
\* status 24
ValidateCopiedFiles ==
    /\ cPc = "copied"
    /\ cPc' = "validated"
    /\ vRet' = IF validate_copied_files(fromCritical, toCritical, fromEntries, toEntries,
                                        fromReadable, toReadable)
               THEN "true" ELSE "false"
    /\ UNCHANGED <<guardVars, patchVars, twiceVars, dirVars, batchVars, mainVars, lvVars, runVars, selVars, copyVars, crateFile, extractDir, dlRet, dirRet,
                   cCalls, fromCritical, toCritical, fromEntries, toEntries, fromReadable,
                   toReadable>>

\* copy_dir, lines 372-393: a source that does not exist ends the call with
\* an error; the destination is created, which can fail; then the loop
\* starts
CopyDirEnter ==
    /\ cPc = "copy_dir"
    /\ IF ~fromExists
       THEN cPc' = "copy_returned" /\ cRet' = "Err_source"
       ELSE \/ cPc' = "copy_returned" /\ cRet' = "Err_create_dir"
            \/ cPc' = "copy_loop" /\ cRet' = cRet
    /\ UNCHANGED <<guardVars, patchVars, twiceVars, dirVars, batchVars, mainVars, lvVars, runVars, selVars,
                   crateFile, extractDir, dlRet, dirRet, cCalls, fromCritical, toCritical,
                   fromEntries, toEntries, fromReadable, toReadable, vRet,
                   fromExists, attempt, rsyncStatus, last_error>>

\* copy_dir with the answer of the validation ignored
CopyValidatedAnyway ==
    /\ cPc = "validated"
    /\ cPc' = "copy_returned" /\ cRet' = "Ok"
    /\ UNCHANGED <<guardVars, patchVars, twiceVars, dirVars, batchVars, mainVars, lvVars, runVars, selVars,
                   crateFile, extractDir, dlRet, dirRet, cCalls, fromCritical, toCritical,
                   fromEntries, toEntries, fromReadable, toReadable, vRet,
                   fromExists, attempt, rsyncStatus, last_error>>

\* copy_dir, lines 395-470, one pass of the loop up to the validation: rsync
\* is invoked; when it cannot be started the call ends with that error
\* (line 423); status 24 leads to the validation of a destination that
\* holds a part of the source (line 439); another failure sets last_error
\* and the loop goes on (lines 449-465); status 0 ends the call with Ok
\* (line 469)
CopyRsync ==
    /\ cPc = "copy_loop"
    /\ attempt < max_retries
    /\ attempt' = attempt + 1
    /\ vRet' = "none"
    /\ \E status \in RsyncStatuses :
          /\ rsyncStatus' = status
          /\ IF status = "noexec"
             THEN /\ cPc' = "copy_returned" /\ cRet' = "Err_execute"
                  /\ UNCHANGED <<toCritical, toEntries, last_error>>
             ELSE IF status = "24"
             THEN /\ toCritical' \in SUBSET fromCritical
                  /\ toEntries' \in TopEntries(toCritical')..fromEntries
                  /\ cPc' = "copied"
                  /\ UNCHANGED <<cRet, last_error>>
             ELSE IF status = "other"
             THEN /\ toCritical' \in SUBSET fromCritical
                  /\ toEntries' \in TopEntries(toCritical')..fromEntries
                  /\ last_error' = "rsync"
                  /\ cPc' = "copy_loop"
                  /\ UNCHANGED cRet
             ELSE /\ toCritical' = fromCritical /\ toEntries' = fromEntries
                  /\ cPc' = "copy_returned" /\ cRet' = "Ok"
                  /\ UNCHANGED last_error
    /\ UNCHANGED <<guardVars, patchVars, twiceVars, dirVars, batchVars, mainVars, lvVars, runVars, selVars,
                   crateFile, extractDir, dlRet, dirRet, cCalls, fromCritical,
                   fromEntries, fromReadable, toReadable, fromExists>>

\* copy_dir, lines 439-448: a destination the validation accepted ends the
\* call with Ok; otherwise last_error is set and the loop goes on
CopyValidated ==
    /\ cPc = "validated"
    /\ IF vRet = "true"
       THEN cPc' = "copy_returned" /\ cRet' = "Ok" /\ UNCHANGED last_error
       ELSE cPc' = "copy_loop" /\ last_error' = "validation" /\ UNCHANGED cRet
    /\ UNCHANGED <<guardVars, patchVars, twiceVars, dirVars, batchVars, mainVars, lvVars, runVars, selVars,
                   crateFile, extractDir, dlRet, dirRet, cCalls, fromCritical, toCritical,
                   fromEntries, toEntries, fromReadable, toReadable, vRet,
                   fromExists, attempt, rsyncStatus>>

\* copy_dir, lines 473-481: the loop is over, the call ends with last_error
CopyDirFails ==
    /\ cPc = "copy_loop"
    /\ attempt = max_retries
    /\ cPc' = "copy_returned"
    /\ cRet' = IF last_error = "validation" THEN "Err_validation"
               ELSE IF last_error = "rsync" THEN "Err_rsync"
               ELSE "Err_attempts"
    /\ UNCHANGED <<guardVars, patchVars, twiceVars, dirVars, batchVars, mainVars, lvVars, runVars, selVars,
                   crateFile, extractDir, dlRet, dirRet, cCalls, fromCritical, toCritical,
                   fromEntries, toEntries, fromReadable, toReadable, vRet,
                   fromExists, attempt, rsyncStatus, last_error>>

CacheNext ==
    \/ GetCrateDirPath
    \/ download
    \/ unzip
    \/ cleanup_crate_file
    \/ ValidateCopiedFiles
    \/ CopyDirEnter
    \/ CopyRsync
    \/ CopyValidated
    \/ CopyDirFails

InitCache == MainIdle /\ LevelIdle /\ RunnerIdle /\ SelectIdle /\ CacheInit /\ BatchIdle /\ DirIdle /\ TwiceIdle /\ PatchIdle /\ GuardIdle

SpecCache == InitCache /\ [][CacheNext]_vars

\* each rsync process ends and the runtime goes on polling the call of
\* copy_dir, so a step that is possible is taken
SpecCacheFair == SpecCache /\ WF_vars(CacheNext)

\* C28: a call of download() that returned success left a crate file that
\* exists and is not empty, whatever calls for the key went before; a
\* download that left an empty file is never accepted by a later call.
C28_DownloadOkNonEmpty ==
    (cPc = "unzip" /\ dlRet = "Ok") => crateFile = "full"

\* C29: a call of get_crate_dir_path() that returned a directory returned
\* one that holds a manifest, whether the directory existed before the
\* call or was extracted by it.
C29_ReturnedTreeHasManifest ==
    (cPc = "returned" /\ dirRet = "Ok") => extractDir = "manifest"

\* C30: validate_copied_files returns true only if every critical file of
\* the source exists in the destination and twice the entry count of the
\* destination is at least the entry count of the source, for odd counts
\* and for a destination that cannot be read (which counts no entry) too.
C30_ValidatedAtLeastHalf ==
    (cPc = "validated" /\ vRet = "true" /\ fromReadable)
        => /\ \A file \in critical_files : file \in fromCritical => file \in toCritical
           /\ 2 * (IF toReadable THEN toEntries ELSE 0) >= fromEntries

\* the last rsync invocation of the call was one copy_dir accepts: it
\* ended with status 0, or with status 24 and a destination that
\* validate_copied_files accepted
LastAttemptAccepted ==
    /\ attempt >= 1
    /\ \/ rsyncStatus = "0"
       \/ rsyncStatus = "24" /\ vRet = "true"

CopyDirSafe ==
    /\ attempt <= 3
    /\ (cPc = "copy_loop") => ~LastAttemptAccepted
    /\ (cPc = "copy_returned") =>
          /\ cRet = "Ok" <=> LastAttemptAccepted
          /\ ~fromExists => (cRet = "Err_source" /\ attempt = 0)
          /\ (cRet # "Ok" /\ attempt >= 1) =>
                /\ rsyncStatus = "noexec" => cRet = "Err_execute"
                /\ rsyncStatus = "24" => (cRet = "Err_validation" /\ attempt = 3)
                /\ rsyncStatus = "other" => (cRet = "Err_rsync" /\ attempt = 3)

\* C39: copy_dir always terminates, after at most 3 rsync invocations; it
\* returns Ok if and only if an attempt ended with status 0, or with status
\* 24 and a destination validate_copied_files accepted (no attempt follows
\* such an attempt); otherwise it returns the error of the last failed
\* attempt; a source directory that does not exist gives an error without
\* any rsync invocation.
C39_CopyDirTerminates ==
    /\ []CopyDirSafe
    /\ (cPc \in {"copy_dir", "copy_loop", "copied", "validated"}) ~> (cPc = "copy_returned")

\* three rsync invocations, the last one ended with status 24 and was
\* rejected after an earlier one had failed, and copy_dir returned
C39_Witness ==
    /\ cPc = "copy_returned"
    /\ attempt = 3
    /\ rsyncStatus = "24"
    /\ vRet = "false"
    /\ cRet = "Err_validation"
    /\ toCritical # {}

\* ---------------------------------------------------------------------
\* The batch driver run_from_csv (SpecBatch)
\* ---------------------------------------------------------------------

\* the rows of the CSV file at most
MaxRows == 3

\* what the analysis of a row can do: exit with status 0, exit with another
\* status, or not start at all
RowOutcomes == {"success", "failure", "nospawn"}

\* the directory names the clock can give at line 44
LogDirs == {"logs/t1", "logs/t2"}

\* main, lines 15-44: the rows are read, log_dir is computed once
BatchInit ==
    /\ bRows \in SeqsUpTo(RowOutcomes, MaxRows)
    /\ bLogDir \in LogDirs
    /\ bIdx = 1
    /\ bDispatched = <<>>
    /\ bPc = "loop"

\* main, lines 46-66: the process of the next row is spawned with LOG_DIR
\* set to log_dir; a spawn error ends main
BatchSpawn ==
    /\ bPc = "loop"
    /\ bIdx <= Len(bRows)
    /\ IF bRows[bIdx] = "nospawn"
       THEN bPc' = "err" /\ UNCHANGED bDispatched
       ELSE /\ bPc' = "wait"
            /\ bDispatched' = Append(bDispatched, [row |-> bIdx, LOG_DIR |-> bLogDir])
    /\ UNCHANGED <<guardVars, patchVars, twiceVars, dirVars, mainVars, lvVars, runVars, selVars, cacheVars, bRows, bLogDir, bIdx>>

\* main, lines 68-75: the process is waited for; a status other than
\* success ends main with an error, otherwise the loop goes on
BatchWait ==
    /\ bPc = "wait"
    /\ IF bRows[bIdx] = "success"
       THEN bPc' = "loop" /\ bIdx' = bIdx + 1
       ELSE bPc' = "err" /\ UNCHANGED bIdx
    /\ UNCHANGED <<guardVars, patchVars, twiceVars, dirVars, mainVars, lvVars, runVars, selVars, cacheVars, bRows, bLogDir, bDispatched>>

\* main, lines 76-78: after the last row main returns Ok
BatchFinish ==
    /\ bPc = "loop"
    /\ bIdx > Len(bRows)
    /\ bPc' = "ok"
    /\ UNCHANGED <<guardVars, patchVars, twiceVars, dirVars, mainVars, lvVars, runVars, selVars, cacheVars, bRows, bLogDir, bIdx,
                   bDispatched>>

BatchNext ==
    \/ BatchSpawn
    \/ BatchWait
    \/ BatchFinish

InitBatch == MainIdle /\ LevelIdle /\ RunnerIdle /\ SelectIdle /\ CacheIdle /\ BatchInit /\ DirIdle /\ TwiceIdle /\ PatchIdle /\ GuardIdle

SpecBatch == InitBatch /\ [][BatchNext]_vars

\* C31: when the driver has ended, every row of the file that can be
\* started was dispatched, in file order and with the one LOG_DIR, also the
\* rows that follow a row whose analysis exited with a failure status.
C31_EveryRowDispatched ==
    bPc \in {"ok", "err"}
        => \A i \in 1..Len(bRows) :
              (\A j \in 1..i : bRows[j] # "nospawn")
                  => /\ Len(bDispatched) >= i
                     /\ bDispatched[i] = [row |-> i, LOG_DIR |-> bLogDir]

\* ---------------------------------------------------------------------
\* The workspace manager of dir.rs (SpecDir)
\* ---------------------------------------------------------------------

\* the workspaces the manager holds at most
MaxDirs == 3

\* the crates and versions directories are created for
DirNames == {"libA", "libB"}
DirVersions == {"1.0.0"}

\* a path is the sequence of its components below $WORKING_DIR; the
\* component format!("{}-workspace", name) is <<name, "workspace">> and
\* format!("{}-{}", name, version) is <<name, version>>
WorkspaceComponent(name) == <<name, "workspace">>
VersionComponent(name, version) == <<name, version>>

\* PathBuf::join
join(path, component) == Append(path, component)

\* Vec::push and Vec::get with the indices of the code, which start at 0
push_front(list, x) == <<x>> \o list
push(list, x) == Append(list, x)
get(list, index) == IF index + 1 \in DOMAIN list THEN <<list[index + 1]>> ELSE <<>>

\* CrateWorkspaceFileSystemManager::new, lines 81-86
DirInit ==
    /\ workspaces = <<>>
    /\ version_dirs = <<>>
    /\ dRet = [op |-> "none", kind |-> "none", arg |-> 0, ws |-> 0, vd |-> 0, path |-> <<>>]
    /\ dCreated = <<>>

\* create_root, lines 88-98, with CrateWorkspace::create_root, lines 22-35:
\* create_dir_all may panic before the push; the assertion panics after it
create_root(crate_name) ==
    /\ Len(workspaces) < MaxDirs
    /\ LET path == <<<<"cve">>, WorkspaceComponent(crate_name)>>
           ws == [path |-> path, name |-> crate_name, index |-> 0]
       IN  \/ /\ workspaces' = push(workspaces, ws)
              /\ dRet' = [op |-> "create_root",
                          kind |-> IF Len(workspaces) = 0 THEN "Ok" ELSE "panic",
                          arg |-> 0, ws |-> 0, vd |-> 0, path |-> <<>>]
           \/ /\ UNCHANGED workspaces
              /\ dRet' = [op |-> "create_root", kind |-> "panic", arg |-> 0, ws |-> 0, vd |-> 0,
                          path |-> <<>>]
    /\ UNCHANGED <<guardVars, patchVars, twiceVars, mainVars, lvVars, runVars, selVars, cacheVars, batchVars, version_dirs,
                   dCreated>>

\* create_krate_working_dir, lines 104-130, with CrateWorkspace::create_child
\* (lines 39-48) and CrateVersionDir::create (lines 61-69): an unknown parent
\* is an error; each create_dir_all may panic, the second one after the
\* workspace was pushed
create_krate_working_dir(parent, crate_name, crate_version) ==
    /\ Len(workspaces) < MaxDirs
    /\ IF get(workspaces, parent) = <<>>
       THEN /\ dRet' = [op |-> "create", kind |-> "Err", arg |-> parent, ws |-> 0, vd |-> 0,
                             path |-> <<>>]
            /\ UNCHANGED <<workspaces, version_dirs, dCreated>>
       ELSE LET parent_workspace == get(workspaces, parent)[1]
                crate_workspace ==
                    [path |-> join(parent_workspace.path, WorkspaceComponent(crate_name)),
                     name |-> crate_name, index |-> Len(workspaces)]
                version_dir ==
                    [path |-> join(crate_workspace.path,
                                   VersionComponent(crate_name, crate_version)),
                     name |-> crate_name, version |-> crate_version]
            IN  \/ /\ dRet' = [op |-> "create", kind |-> "panic", arg |-> parent, ws |-> 0, vd |-> 0,
                               path |-> <<>>]
                   /\ UNCHANGED <<workspaces, version_dirs, dCreated>>
                \/ /\ workspaces' = push(workspaces, crate_workspace)
                   /\ dRet' = [op |-> "create", kind |-> "panic", arg |-> parent, ws |-> 0, vd |-> 0,
                               path |-> <<>>]
                   /\ UNCHANGED <<version_dirs, dCreated>>
                \/ /\ workspaces' = push(workspaces, crate_workspace)
                   /\ version_dirs' = push(version_dirs, version_dir)
                   /\ dRet' = [op |-> "create", kind |-> "Ok", arg |-> parent,
                               ws |-> Len(workspaces') - 1,
                               vd |-> Len(version_dirs') - 1, path |-> <<>>]
                   /\ dCreated' = Append(dCreated,
                                         [parent |-> parent, ws |-> Len(workspaces') - 1,
                                          vd |-> Len(version_dirs') - 1,
                                          path |-> version_dir.path])
    /\ UNCHANGED <<guardVars, patchVars, twiceVars, mainVars, lvVars, runVars, selVars, cacheVars, batchVars>>

\* get_krate_working_dir, lines 132-141
get_krate_working_dir(version_dir_index) ==
    /\ dRet' = IF get(version_dirs, version_dir_index) = <<>>
               THEN [op |-> "get", kind |-> "Err", arg |-> version_dir_index, ws |-> 0, vd |-> 0,
                     path |-> <<>>]
               ELSE [op |-> "get", kind |-> "Ok", arg |-> version_dir_index, ws |-> 0, vd |-> 0,
                     path |-> get(version_dirs, version_dir_index)[1].path]
    /\ UNCHANGED <<guardVars, patchVars, twiceVars, mainVars, lvVars, runVars, selVars, cacheVars, batchVars, workspaces,
                   version_dirs, dCreated>>

DirNext ==
    \/ \E n \in DirNames : create_root(n)
    \/ \E p \in 0..MaxDirs : \E n \in DirNames : \E v \in DirVersions :
          create_krate_working_dir(p, n, v)
    \/ \E i \in 0..MaxDirs : get_krate_working_dir(i)

InitDir == MainIdle /\ LevelIdle /\ RunnerIdle /\ SelectIdle /\ CacheIdle /\ BatchIdle /\ DirInit /\ TwiceIdle /\ PatchIdle /\ GuardIdle

SpecDir == InitDir /\ [][DirNext]_vars

\* p is a proper ancestor of q
IsAncestor(p, q) == Len(p) < Len(q) /\ SubSeq(q, 1, Len(p)) = p

\* C32: for every node created by create_krate_working_dir whose parent P
\* is a node with a version directory, the workspace path and the
\* version-directory path of the child lie below the version-directory
\* path of P.
C32_ChildUnderParentVersionDir ==
    \A c \in DOMAIN dCreated : \A p \in DOMAIN dCreated :
        dCreated[p].ws = dCreated[c].parent
            => /\ IsAncestor(dCreated[p].path, workspaces[dCreated[c].ws + 1].path)
               /\ IsAncestor(dCreated[p].path, dCreated[c].path)

\* list is the beginning of list2
IsPrefix(list, list2) == Len(list) <= Len(list2) /\ SubSeq(list2, 1, Len(list)) = list

\* what C38 requires of a step of the manager
AppendOnlyStep ==
    /\ IsPrefix(workspaces, workspaces')
    /\ IsPrefix(version_dirs, version_dirs')
    /\ (dRet'.op = "create" /\ dRet'.kind = "Ok")
          => /\ Len(workspaces') = Len(workspaces) + 1
             /\ Len(version_dirs') = Len(version_dirs) + 1
    /\ (dRet'.op = "create" /\ get(workspaces, dRet'.arg) = <<>>)
          => dRet'.kind = "Err" /\ UNCHANGED <<workspaces, version_dirs>>
    /\ dRet'.op = "get"
          => /\ UNCHANGED <<workspaces, version_dirs>>
             /\ get(version_dirs, dRet'.arg) = <<>> => dRet'.kind = "Err"
    /\ \A c \in DOMAIN dCreated' :
          /\ get(version_dirs', dCreated'[c].vd) # <<>>
          /\ get(version_dirs', dCreated'[c].vd)[1].path = dCreated'[c].path
          /\ (dRet'.op = "get" /\ dRet'.arg = dCreated'[c].vd)
                => dRet'.kind = "Ok" /\ dRet'.path = dCreated'[c].path

\* C38: the two lists of the manager only grow at the end: a call of
\* create_krate_working_dir that returns Ok appends one workspace and one
\* version directory and changes no entry; an index it returned resolves
\* through get_krate_working_dir to the same path ever after;
\* get_krate_working_dir changes nothing; an unknown parent index or
\* version-directory index gives an error and leaves both lists as they were.
C38_AppendOnlyLists == [][AppendOnlyStep]_vars

\* two directories were created and the first index was looked up again
C38_Witness ==
    /\ Len(dCreated) >= 2
    /\ dRet.op = "get" /\ dRet.kind = "Ok" /\ dRet.arg = dCreated[1].vd

\* ---------------------------------------------------------------------
\* Manifest patching (SpecPatch)
\* ---------------------------------------------------------------------

\* the patches applied to one crate at most
MaxPatches == 3

\* the dependencies a pin can name and the versions it can pin
PatchNames == {"libA", "libB"}
PatchVersions == 1..2

\* an entry of [patch.crates-io]: the value of its path key and the comment
\* after the value; kind "none" stands for no entry (no comment)
NoEntry == [path |-> [kind |-> "none", name |-> "none", version |-> 0],
            suffix |-> [kind |-> "none", name |-> "none", version |-> 0]]

\* vendor_and_patch_dep, lines 339-354: the inline table with
\* path = format!("vendor/{}-{}", dep_name, dep_version) and the comment
VendorEntry(dep_name, dep_version) ==
    [path |-> [kind |-> "vendor", name |-> dep_name, version |-> dep_version],
     suffix |-> [kind |-> "auto", name |-> dep_name, version |-> dep_version]]

\* entries a manifest can hold before the first patch: none, one written by
\* hand, one left by an earlier patch
OtherEntry == [path |-> [kind |-> "git", name |-> "none", version |-> 0],
               suffix |-> [kind |-> "user", name |-> "none", version |-> 0]]

EntriesOf(n) == {NoEntry, OtherEntry} \cup {VendorEntry(n, v) : v \in PatchVersions}

\* an insert that writes the entry under every key
insert_everywhere(table, key, item) == [k \in DOMAIN table |-> item]

\* toml_edit Table::insert, line 355: the entry of the key is added or replaced
insert(table, key, item) == [table EXCEPT ![key] = item]

PatchInit ==
    /\ manifest \in {t \in [PatchNames -> UNION {EntriesOf(n) : n \in PatchNames}] :
                        \A n \in PatchNames : t[n] \in EntriesOf(n)}
    /\ lock \in [PatchNames -> {0, 1}]
    /\ vendored = {}
    /\ pLast = [fn |-> "none", name |-> "none", version |-> 0]
    /\ pCount = 0
    /\ pRet = "none"
    /\ pRepeated = FALSE

\* vendor_and_patch_dep, lines 243-366: the dependency is vendored unless
\* it is already (curl or tar may fail, and then nothing is written); the
\* manifest is read, the entry is inserted, the manifest is written
vendor_and_patch_dep(dep_name, dep_version) ==
    /\ pCount < MaxPatches
    /\ pCount' = pCount + 1
    /\ \/ /\ <<dep_name, dep_version>> \notin vendored
          /\ pRet' = "Err"
          /\ UNCHANGED <<manifest, vendored, pLast, pRepeated>>
       \/ /\ vendored' = vendored \cup {<<dep_name, dep_version>>}
          /\ manifest' = insert(manifest, dep_name, VendorEntry(dep_name, dep_version))
          /\ pLast' = [fn |-> "vendor", name |-> dep_name, version |-> dep_version]
          /\ pRepeated' = (pLast' = pLast)
          /\ pRet' = "Ok"
    /\ UNCHANGED <<guardVars, mainVars, lvVars, runVars, selVars, cacheVars, batchVars, dirVars,
                   twiceVars, lock>>

\* Krate::patch_cargo_toml_with_parent, lines 315-368: cargo update
\* --precise pins the parent in Cargo.lock, or fails; Cargo.toml is only read
patch_cargo_toml_with_parent(parent_name, parent_version) ==
    /\ pCount < MaxPatches
    /\ pCount' = pCount + 1
    /\ \/ /\ pRet' = "Err"
          /\ UNCHANGED <<lock, pLast, pRepeated>>
       \/ /\ lock' = [lock EXCEPT ![parent_name] = parent_version]
          /\ pLast' = [fn |-> "update", name |-> parent_name, version |-> parent_version]
          /\ pRepeated' = (pLast' = pLast)
          /\ pRet' = "Ok"
    /\ UNCHANGED <<guardVars, mainVars, lvVars, runVars, selVars, cacheVars, batchVars, dirVars,
                   twiceVars, manifest, vendored>>

PatchNext ==
    \/ \E n \in PatchNames : \E v \in PatchVersions : vendor_and_patch_dep(n, v)
    \/ \E n \in PatchNames : \E v \in PatchVersions : patch_cargo_toml_with_parent(n, v)

InitPatch == MainIdle /\ LevelIdle /\ RunnerIdle /\ SelectIdle /\ CacheIdle /\ BatchIdle /\ DirIdle /\ TwiceIdle /\ PatchInit /\ GuardIdle

SpecPatch == InitPatch /\ [][PatchNext]_vars

\* the manifest without the comments after the entries
WithoutComments(m) == [n \in DOMAIN m |-> m[n].path]

\* what C34 requires of a patch that succeeds
IdempotentStep ==
    (pCount' = pCount + 1 /\ pRet' = "Ok")
        => /\ pLast' = pLast
                => /\ WithoutComments(manifest') = WithoutComments(manifest)
                   /\ lock' = lock
           /\ pLast'.fn = "vendor"
                => /\ manifest'[pLast'.name].path
                        = [kind |-> "vendor", name |-> pLast'.name, version |-> pLast'.version]
                   /\ \A n \in PatchNames \ {pLast'.name} : manifest'[n] = manifest[n]
                   /\ lock' = lock
           /\ pLast'.fn = "update" => manifest' = manifest

\* C34: a pin applied a second time to the manifest it has patched leaves
\* the manifest as the first application left it, comments apart;
\* vendor_and_patch_dep adds or replaces the one [patch.crates-io] entry of
\* the dependency and changes no other entry.
C34_PatchIdempotent == [][IdempotentStep]_vars

\* a vendored pin was applied twice in a row where another entry exists
C34_Witness ==
    /\ pRepeated
    /\ pRet = "Ok"
    /\ pLast.fn = "vendor"
    /\ manifest[pLast.name] = VendorEntry(pLast.name, pLast.version)
    /\ \E n \in PatchNames \ {pLast.name} : manifest[n] = OtherEntry

\* ---------------------------------------------------------------------
\* DirGuard under concurrent calls of run_function_analysis (SpecGuard)
\* ---------------------------------------------------------------------

\* the calls of run_function_analysis that run concurrently at most
MaxGuards == 3

GuardCalls == 1..MaxGuards

\* the crate directories of the nodes
CrateDirs == {"crateA", "crateB"}

\* before the first call: the process is in the directory it was started in
GuardInit ==
    /\ cwd = "start"
    /\ gDir \in [GuardCalls -> CrateDirs]
    /\ gOriginal = [c \in GuardCalls |-> "none"]
    /\ gPc = [c \in GuardCalls |-> "idle"]

\* run_function_analysis, line 40, with DirGuard::new, lines 21-26: the
\* current directory is saved and changed; an error is unwrapped into a panic
DirGuardNew(c) ==
    /\ gPc[c] = "idle"
    /\ \/ /\ gOriginal' = [gOriginal EXCEPT ![c] = cwd]
          /\ cwd' = gDir[c]
          /\ gPc' = [gPc EXCEPT ![c] = "held"]
       \/ /\ gPc' = [gPc EXCEPT ![c] = "panic"]
          /\ UNCHANGED <<cwd, gOriginal>>
    /\ UNCHANGED <<mainVars, lvVars, runVars, selVars, cacheVars, batchVars, dirVars,
                   twiceVars, patchVars, gDir>>

\* the end of run_function_analysis on any path, with Drop for DirGuard,
\* lines 29-33: the saved directory is set again
DirGuardDrop(c) ==
    /\ gPc[c] = "held"
    /\ cwd' = gOriginal[c]
    /\ gPc' = [gPc EXCEPT ![c] = "done"]
    /\ UNCHANGED <<mainVars, lvVars, runVars, selVars, cacheVars, batchVars, dirVars,
                   twiceVars, patchVars, gDir, gOriginal>>

GuardNext ==
    \/ \E c \in GuardCalls : DirGuardNew(c)
    \/ \E c \in GuardCalls : DirGuardDrop(c)

InitGuard == MainIdle /\ LevelIdle /\ RunnerIdle /\ SelectIdle /\ CacheIdle /\ BatchIdle /\ DirIdle /\ TwiceIdle /\ PatchIdle /\ GuardInit

SpecGuard == InitGuard /\ [][GuardNext]_vars

\* C35: when every call of run_function_analysis has finished, the current
\* directory of the process is the one it had before the first call
\* started, however the creations and drops of the guards interleaved.
C35_CurrentDirRestored ==
    (\A c \in GuardCalls : gPc[c] \in {"done", "panic"}) => cwd = "start"

====
